---- MODULE Spec2Model ----
(***************************************************************************)
(* Messaging core of raspiscope-python: the Communicator (hub and peer     *)
(* transport over newline-delimited JSON) and the EventManager (router and *)
(* process supervisor).                                                    *)
(*                                                                         *)
(* Two groups of variables:                                                *)
(*   - the framing variables model one receive loop fed by a byte stream   *)
(*     in arbitrary chunks (SpecFraming);                                  *)
(*   - the hub variables model the hub's threads (accept loop, dispatch    *)
(*     loop, one receive loop per connection) and the router's main        *)
(*     thread (Spec).                                                      *)
(***************************************************************************)
EXTENDS Integers, Sequences, FiniteSets, TLC

\* ------------------------------------------------------------------------
\* Bounds of the model
\* ------------------------------------------------------------------------
\* Number of newline-terminated units put on the stream of SpecFraming.
MaxUnits == 3

\* Number of connections peers open towards the hub in one run.
MaxConn == 3

\* Number of envelopes the peers send to the hub in one run.
MaxInbound == 1

\* Number of items on the incoming queue at the start of SpecRouter.
MaxRouted == 2

\* Length of a peer's outgoing queue beyond which the steps that put on it
\* are held back.
MaxClientQueue == 3

\* Length of the hub's outgoing queue beyond which the accept loop, the
\* receive loops and route() are held back.
MaxQueue == 4

\* ------------------------------------------------------------------------
\* Names and envelopes
\* ------------------------------------------------------------------------
\* Names under which peers identify themselves.
PeerNames == {"A", "B", "Logger"}

\* EventManager.name, also the name of its server Communicator.
RouterName == "EventManager"

\* Destinations a peer may put in an envelope: a peer, broadcast, the
\* router, or a name nobody identifies with.
Destinations == PeerNames \cup {"All", RouterName, "Z"}

\* Message types: an application type and the types the router looks at.
MsgTypes == {"data", "register", "unregister", "Stop"}

\* ------------------------------------------------------------------------
\* Envelope codec and framing (communicator.py)
\* ------------------------------------------------------------------------
\* The payload of an envelope sent without data ({} in the source).
NoPayload == <<>>

\* The payloads put in envelopes: none, the text of a log entry, and one
\* that tells a second envelope from a first.
Payloads == {NoPayload, <<"-">>, <<"second">>}

\* An envelope: {"Sender", "Destination", "Message": {"type", "payload"}}.
Envelope(s, d, t) ==
    [Sender |-> s, Destination |-> d, type |-> t, payload |-> NoPayload]

\* What dict.get returns for a key the envelope lacks (Python's None).
NoneValue == "None"

\* A decoded unit that is valid JSON but not an object (json.loads("5")):
\* _parseMessages puts it on the incoming queue like any other.
NonDictItem == [json |-> "5"]

\* The delimiter appended after each encoded envelope.
NL == "\n"

\* A byte that is not valid UTF-8 (such as 0xFF).
BadByte == "0xFF"

\* json.dumps(message) + '\n' : the envelope as an object of its fields,
\* one symbol per lexical element; json.dumps never emits a raw newline.
Encode(m) == <<"{", m.Sender, m.Destination, m.type, m.payload, "}", NL>>

\* json.loads on one unit: the envelope when the unit is a complete object,
\* a JSONDecodeError otherwise.
JsonValid(u) ==
    /\ Len(u) = 6
    /\ u[1] = "{"
    /\ u[6] = "}"
    /\ u[2] \in PeerNames
    /\ u[3] \in Destinations
    /\ u[4] \in MsgTypes \cup {"LogMessage"}
    /\ u[5] \in Payloads

JsonLoads(u) ==
    [Sender |-> u[2], Destination |-> u[3], type |-> u[4], payload |-> u[5]]

\* Communicator._parseMessages: a list with the decoded unit, or an empty
\* list and one logged JSON parsing error.

ParseMessages(u) ==
    IF JsonValid(u)
    THEN [msgs |-> <<JsonLoads(u)>>, errs |-> 0]
    ELSE [msgs |-> <<>>, errs |-> 1]

\* Index of the first newline of a buffer, 0 when there is none.
FirstNL(buf) ==
    IF \E i \in 1..Len(buf) : buf[i] = NL
    THEN CHOOSE i \in 1..Len(buf) : buf[i] = NL /\ \A j \in 1..(i-1) : buf[j] # NL
    ELSE 0

\* A mutant of the loop: the part after the first newline is thrown away.
SplitLoopOnce(buf, msgs, errs) ==
    LET i == FirstNL(buf) IN
    IF i = 0
    THEN [buffer |-> buf, msgs |-> msgs, errs |-> errs]
    ELSE LET p == ParseMessages(SubSeq(buf, 1, i - 1))
         IN [buffer |-> <<>>, msgs |-> msgs \o p.msgs, errs |-> errs + p.errs]

\* The inner loop of a receive loop:
\*   while '\n' in buffer:
\*       message_str, buffer = buffer.split('\n', 1)
\*       if message_str: put every parsed message on the incoming queue
\* Returns the remaining buffer, the messages put and the errors logged.
RECURSIVE SplitLoop(_, _, _)
SplitLoop(buf, msgs, errs) ==
    LET i == FirstNL(buf) IN
    IF i = 0
    THEN [buffer |-> buf, msgs |-> msgs, errs |-> errs]
    ELSE LET message_str == SubSeq(buf, 1, i - 1)
             rest == SubSeq(buf, i + 1, Len(buf))
             p == IF message_str # <<>>
                  THEN ParseMessages(message_str)
                  ELSE [msgs |-> <<>>, errs |-> 0]
         IN SplitLoop(rest, msgs \o p.msgs, errs + p.errs)

\* bytes.decode('utf-8') raises UnicodeDecodeError on an invalid byte.
Utf8Ok(data) == \A i \in 1..Len(data) : data[i] # BadByte

\* One iteration of a receive loop on a non-empty read `data`:
\* decode, append to the buffer, run the inner loop.
HandleData(buf, data) == SplitLoop(buf \o data, <<>>, 0)

\* ------------------------------------------------------------------------
\* State
\* ------------------------------------------------------------------------
VARIABLES
    \* framing
    units,      \* the units written to the stream, in order (fixed by Init)
    stream,     \* bytes written by the sender and not yet read
    buffer,     \* the receive loop's buffer
    rxQueue,    \* what the receive loop put on its incoming queue
    rxErrs,     \* number of errors the receive loop logged
    rxPc,       \* "run", or how the receive loop ended
    cuts,       \* kinds of chunk boundaries seen so far
    \* hub transport (Communicator, commType "server")
    client_sockets, \* the connection table: a dict, kept in insertion order
    incomingQueue,  \* envelopes decoded by the receive loops
    outgoingQueue,  \* work items [dest, msg] for the dispatch loop
    peer,           \* per connection, the peer's end: "none", "up", "down"
    ident,          \* per connection, the identification the peer sent
    hcon,           \* per connection, the hub's end (see HconStates)
    acceptPc,       \* the accept loop: "accept" (in its loop), "exited"
    sendPc,         \* the dispatch loop (see SendPcStates)
    cur,            \* the work item the dispatch loop is handling
    todo,           \* broadcast: the entries of the snapshot still to visit
    \* router (EventManager)
    stopEvent,      \* EventManager._stopEvent, shared with every loop
    routerPc,       \* the main thread: "run", "cleanup", "terminate", "join", "done"
    termIdx,        \* _cleanup: index of the process record examined next
    proc,           \* per supervised process: "alive", "exited", "terminated"
    \* history (read by the properties only)
    snap,           \* the connection table when `cur` was taken
    endedAtGet,     \* connections whose close had been observed when `cur` was taken
    sent,           \* per connection, sendall calls made for `cur`
    stopSeen,       \* connections the Stop broadcast was written to while up
    stopEnqueued,   \* the Stop broadcast has been put on the outgoing queue
    reconnOf,       \* per connection, the dropped connection it replaces, if any
    nInbound,       \* envelopes sent to the hub so far
    routed,         \* the items route() has taken off the incoming queue, in order
    \* peer transport (Communicator, commType "client")
    conn,           \* self.conn: "None", "socket" (created), "connected"
    link,           \* the hub's end of the peer's connection: "none", "up", "closed", "reset"
    clientPc,       \* the connect-and-serve loop (see ClientPcStates)
    clientSendPc,   \* the send thread: "none", "run", "ended"
    clientOut,      \* the peer's outgoingQueue
    clientStop,     \* the stop event passed to Communicator.run
    lastError,      \* the exception the connect-and-serve loop caught last
    delayFor,       \* seconds the loop sleeps in its retry branch, 0 outside it
    clientConfig,   \* self.config: <<>>, or <<d>> with client_reconnect_delay_s = d
    \* hub startup (Communicator.run, commType "server")
    server_socket,  \* self.server_socket: "None", "unbound", "listening"
    \* peer to hub, end to end
    wire,           \* per connection, envelopes the peer wrote that the hub has not read
    unicasts,       \* history: the peers' envelopes the dispatch loop delivered by unicast
    \* unit runtime (module.py)
    websocket,      \* self.websocket: "None", "open", "closed" (the object, after close)
    stop_event,     \* self.stop_event
    runPc,          \* Module.run (see RunPcStates)
    commPc,         \* the communicator thread (see CommPcStates)
    frames,         \* the text frames the server sends on the connection, in order
    rxIdx,          \* frames websocket.recv() has returned so far
    handled,        \* history: the messages passed to handle_message, in order
    hooks,          \* history: the hooks run() has invoked, in order
    joined,         \* history: run() has joined the communicator thread
    wsSent,         \* history: the texts handed to websocket.send, in order
    calls,          \* history: the send_message calls made, with their outcome
    \* cuvette sensor (cuvetteSensor.py)
    presenceThreshold, \* self.presenceThreshold
    isPresent,      \* self.isPresent
    readings,       \* what self.sensor.value gives at each poll, in order
    rdIdx,          \* polls made so far
    sensorStop,     \* the sensor's stopEvent
    sensorOut,      \* the envelopes the sensor has handed to its transport, in order
    \* application start (main.py, EventManager.__init__ and run)
    enabled,        \* the module names the configuration enables
    mainPc,         \* main(): "init", "starting", "waiting", "crashed"
    startIdx,       \* main(): position in modules_to_start
    emPc,           \* the EventManager: "none", "built", "running"
    modules,        \* EventManager.modules: names of the instances it holds
    started         \* history: the module processes started, as <<starter, name>>

framingVars == <<units, stream, buffer, rxQueue, rxErrs, rxPc, cuts>>

tableVars == <<client_sockets, peer, ident, hcon, reconnOf>>
queueVars == <<incomingQueue, outgoingQueue, nInbound, routed>>
sendVars == <<sendPc, cur, todo, snap, endedAtGet, sent, stopSeen>>
routerVars == <<stopEvent, routerPc, termIdx, proc, stopEnqueued>>

hubVars == <<tableVars, queueVars, sendVars, routerVars, acceptPc>>

clientVars == <<conn, link, clientPc, clientSendPc, clientOut, clientStop,
                lastError, delayFor, clientConfig>>

startVars == <<server_socket>>

\* The variables outside the running hub and the framing loop.
orderVars == <<wire, unicasts>>
moduleVars == <<websocket, stop_event, runPc, commPc, frames, rxIdx, handled,
                hooks, joined, wsSent, calls>>
sensorVars == <<presenceThreshold, isPresent, readings, rdIdx, sensorStop, sensorOut>>
launchVars == <<enabled, mainPc, startIdx, emPc, modules, started>>
appVars == <<sensorVars, launchVars>>
extVars == <<clientVars, startVars, orderVars, moduleVars, appVars>>

vars == <<framingVars, hubVars, extVars>>

\* ------------------------------------------------------------------------
\* Hub: connection table, queues and initial state
\* ------------------------------------------------------------------------
Conns == 1..MaxConn
NoItem ==
    [dest |-> "-",
     msg  |-> [Sender |-> "-", Destination |-> "-", type |-> "-",
               payload |-> <<>>]]

\* What a peer may send as its first message: a name, an empty name, or
\* bytes that are not a JSON object.
NoName == ""
Garbage == "?"
Idents == PeerNames \cup {NoName, Garbage}

\* The identifications tried on each connection, in connect order (main()
\* starts the logger first): three peers with different names, a peer that
\* comes back under the name of an earlier connection, and the two kinds of
\* invalid identification.
IdentsOf(c) ==
    IF c = 1 THEN {"Logger"}
    ELSE IF c = 2 THEN {"A", NoName}
    ELSE {"B", "A", Garbage}

\* The process records of EventManager.runningProcesses, in list order.
runningProcesses == <<"A", "B">>

HconStates == {"none", "run", "closed", "leak", "ended", "stopped"}
SendPcStates == {"get", "bcast", "lookup", "done", "exited", "dead"}

\* dict operations on the connection table (a sequence of entries in
\* insertion order, one per key).
Has(t, n) == \E i \in 1..Len(t) : t[i].name = n
Lookup(t, n) == t[CHOOSE i \in 1..Len(t) : t[i].name = n].conn
Put(t, n, c) ==
    IF Has(t, n)
    THEN [i \in 1..Len(t) |-> IF t[i].name = n THEN [name |-> n, conn |-> c] ELSE t[i]]
    ELSE Append(t, [name |-> n, conn |-> c])
PopKeepsEntry(t, n) == t
Pop(t, n) == SelectSeq(t, LAMBDA e : e.name # n)
ConnsOf(t) == { t[i].conn : i \in 1..Len(t) }

\* Communicator.log / EventManager.log: a LogMessage envelope addressed to
\* "Logger", put on the hub's outgoing queue as a work item. Of the level
\* and text of an entry the model keeps one thing: for the diagnostic
\* "Destination '...' not found for message." the destination it names
\* (`about`), and "-" for every other entry.
Log(about) ==
    [dest |-> "Logger",
     msg  |-> [Sender |-> RouterName, Destination |-> "Logger",
               type |-> "LogMessage", payload |-> <<about>>]]

\* The broadcast of EventManager._cleanup.
StopMessage ==
    [Sender |-> RouterName, Destination |-> "All", type |-> "Stop",
     payload |-> NoPayload]
StopItem == [dest |-> "All", msg |-> StopMessage]

\* The hub before any peer connects; also the hub part of SpecFraming.
HubIdle ==
    /\ client_sockets = <<>>
    /\ incomingQueue = <<>>
    /\ outgoingQueue = <<>>
    /\ peer = [c \in Conns |-> "none"]
    /\ ident = [c \in Conns |-> NoName]
    /\ hcon = [c \in Conns |-> "none"]
    /\ acceptPc = "accept"
    /\ sendPc = "get"
    /\ cur = NoItem
    /\ todo = <<>>
    /\ stopEvent = FALSE
    /\ routerPc = "run"
    /\ termIdx = 1
    /\ proc = [p \in {runningProcesses[i] : i \in 1..Len(runningProcesses)} |-> "alive"]
    /\ snap = <<>>
    /\ endedAtGet = {}
    /\ sent = [c \in Conns |-> 0]
    /\ stopSeen = {}
    /\ stopEnqueued = FALSE
    /\ reconnOf = [c \in Conns |-> {}]
    /\ nInbound = 0
    /\ routed = <<>>

FramingIdle ==
    /\ units = <<>>
    /\ stream = <<>>
    /\ buffer = <<>>
    /\ rxQueue = <<>>
    /\ rxErrs = 0
    /\ rxPc = "run"
    /\ cuts = {}

\* The peer transport after Communicator.__init__, before run() is called.
ClientIdle ==
    /\ conn = "None"
    /\ link = "none"
    /\ clientPc = "while"
    /\ clientSendPc = "none"
    /\ clientOut = <<>>
    /\ clientStop = FALSE
    /\ lastError = "none"
    /\ delayFor = 0
    /\ clientConfig = <<>>

\* The hub after _initializeServer has bound its address.
StartIdle == server_socket = "listening"

\* Nothing in flight from a peer to the hub.
OrderIdle ==
    /\ wire = [c \in Conns |-> <<>>]
    /\ unicasts = <<>>

ModuleIdle ==
    /\ websocket = "None"
    /\ stop_event = FALSE
    /\ runPc = "init"
    /\ commPc = "none"
    /\ frames = <<>>
    /\ rxIdx = 0
    /\ handled = <<>>
    /\ hooks = <<>>
    /\ joined = FALSE
    /\ wsSent = <<>>
    /\ calls = <<>>

SensorIdle ==
    /\ presenceThreshold = 0
    /\ isPresent = FALSE
    /\ readings = <<>>
    /\ rdIdx = 0
    /\ sensorStop = FALSE
    /\ sensorOut = <<>>

LaunchIdle ==
    /\ enabled = {}
    /\ mainPc = "init"
    /\ startIdx = 1
    /\ emPc = "none"
    /\ modules = <<>>
    /\ started = <<>>

AppIdle == SensorIdle /\ LaunchIdle

ExtIdle == ClientIdle /\ StartIdle /\ OrderIdle /\ ModuleIdle /\ AppIdle

Init == HubIdle /\ FramingIdle /\ ExtIdle

\* Room on the outgoing queue for k more items of a repeating producer.
Room(k) == Len(outgoingQueue) + k <= MaxQueue

\* ------------------------------------------------------------------------
\* Peers (the environment of the hub)
\* ------------------------------------------------------------------------
\* The latest dropped connection that identified as `id`, if any (a set of
\* at most one connection).
DroppedAs(id) ==
    LET D == { d \in Conns : peer[d] = "down" /\ ident[d] = id /\ id \in PeerNames }
    IN { d \in D : \A e \in D : e <= d }

\* A peer connects and sends its identification (_runClient: connect, then
\* sendall of {"name": ...}); connections are numbered in connect order.
PeerConnect(c, id) ==
    /\ server_socket = "listening"
    /\ peer[c] = "none"
    /\ id \in IdentsOf(c)
    /\ \A d \in Conns : d < c => peer[d] # "none"
    /\ peer' = [peer EXCEPT ![c] = "up"]
    /\ ident' = [ident EXCEPT ![c] = id]
    /\ reconnOf' = [reconnOf EXCEPT ![c] = DroppedAs(id)]
    /\ UNCHANGED <<client_sockets, hcon, queueVars, sendVars, routerVars, acceptPc>>

\* The peer's end of an accepted connection goes away (close, crash,
\* network drop).
PeerDrop(c) ==
    /\ peer[c] = "up"
    /\ hcon[c] = "run"
    /\ peer' = [peer EXCEPT ![c] = "down"]
    /\ UNCHANGED <<client_sockets, ident, hcon, reconnOf, queueVars, sendVars,
                   routerVars, acceptPc>>

\* ------------------------------------------------------------------------
\* Communicator._runServer: the accept loop
\* ------------------------------------------------------------------------
Pending == { c \in Conns : peer[c] # "none" /\ hcon[c] = "none" }

\* `while not stopEvent.is_set()` finds the event set: the loop ends. The
\* statements after the loop begin with `if send_thread.is_alive()`, and
\* send_thread is a local of _initializeServer: the name is not defined
\* here, NameError ends the thread, and neither the joins nor
\* self.server_socket.close() are executed.
AcceptExit ==
    /\ acceptPc = "accept"
    /\ stopEvent
    /\ acceptPc' = "exited"
    /\ UNCHANGED <<tableVars, queueVars, sendVars, routerVars>>

\* The binding step of the accept loop.
Bind(t, n, c) == Put(t, n, c)

\* accept() returns the oldest waiting connection; its first message is read
\* and decides: a name binds the connection and starts its receive loop, an
\* empty name closes it, anything else raises into `except Exception`.
AcceptConn ==
    /\ acceptPc = "accept"
    /\ Pending # {}
    /\ Room(2)
    /\ LET c == CHOOSE x \in Pending : \A y \in Pending : x <= y IN
        \/ /\ ident[c] \in PeerNames
           /\ client_sockets' = Bind(client_sockets, ident[c], c)
           /\ hcon' = [hcon EXCEPT ![c] = "run"]
           /\ outgoingQueue' = outgoingQueue
                \o <<Log("-"), Log("-")>>
        \/ /\ ident[c] = NoName
           /\ hcon' = [hcon EXCEPT ![c] = "closed"]
           /\ outgoingQueue' = outgoingQueue
                \o <<Log("-"), Log("-")>>
           /\ UNCHANGED client_sockets
        \/ /\ ident[c] = Garbage
           /\ hcon' = [hcon EXCEPT ![c] = "leak"]
           /\ outgoingQueue' = outgoingQueue
                \o <<Log("-"), Log("-")>>
           /\ UNCHANGED client_sockets
    /\ UNCHANGED <<acceptPc, peer, ident, reconnOf, incomingQueue, nInbound, routed,
                   sendVars, routerVars>>

\* ------------------------------------------------------------------------
\* Communicator._serverHandleClient: one receive loop per connection
\* ------------------------------------------------------------------------
\* The envelopes the peer on connection c sends: its own name as Sender.
Sendable(c) ==
    { Envelope(ident[c], d, "data") : d \in Destinations \ {ident[c]} }
    \cup { Envelope(ident[c], d, "register") : d \in {RouterName, "B"} }
    \cup { Envelope(ident[c], RouterName, "Stop") }

\* recv returns one encoded envelope: every decoded message is put on the
\* incoming queue.
ServerHandleData(c, m) ==
    /\ hcon[c] = "run"
    /\ peer[c] = "up"
    /\ nInbound < MaxInbound
    /\ m \in Sendable(c)
    /\ incomingQueue' = incomingQueue \o HandleData(<<>>, Encode(m)).msgs
    /\ nInbound' = nInbound + 1
    /\ UNCHANGED <<outgoingQueue, routed, tableVars, sendVars, routerVars, acceptPc>>

\* The removal step of a receive loop that saw its connection closed.
Unbind(t, n) == Pop(t, n)

\* recv returns no data or raises a connection error: the loop logs, pops
\* its client name from the table and breaks.
ServerHandleClosed(c) ==
    /\ hcon[c] = "run"
    /\ peer[c] = "down"
    /\ Room(1)
    /\ outgoingQueue' = Append(outgoingQueue, Log("-"))
    /\ client_sockets' = Unbind(client_sockets, ident[c])
    /\ hcon' = [hcon EXCEPT ![c] = "ended"]
    /\ UNCHANGED <<peer, ident, reconnOf, incomingQueue, nInbound, routed, sendVars,
                   routerVars, acceptPc>>

\* while not stopEvent.is_set(): the loop ends without touching the table.
ServerHandleStop(c) ==
    /\ hcon[c] = "run"
    /\ stopEvent
    /\ hcon' = [hcon EXCEPT ![c] = "stopped"]
    /\ UNCHANGED <<client_sockets, peer, ident, reconnOf, queueVars, sendVars,
                   routerVars, acceptPc>>

\* ------------------------------------------------------------------------
\* Communicator._serverSendLoop: the dispatch loop
\* ------------------------------------------------------------------------
\* The loop is idle (outgoingQueue.get timed out with Empty, `continue`) and
\* `while not stopEvent.is_set()` finds the event set: the loop ends.
SendLoopExit ==
    /\ sendPc = "get"
    /\ stopEvent
    /\ sendPc' = "exited"
    /\ UNCHANGED <<cur, todo, snap, endedAtGet, sent, stopSeen,
                   tableVars, queueVars, routerVars, acceptPc>>

\* The entries a broadcast visits: list(self.client_sockets.items()); and a
\* mutant that leaves out the first entry.
BroadcastTargetsSkipFirst(t) == IF t = <<>> THEN t ELSE Tail(t)
BroadcastTargets(t) == t

\* An entry of the snapshot is written to unless it is the sender's.
Eligible(name, sender) == name # sender

\* What the dispatch loop puts on the outgoing queue for a work item whose
\* destination is neither "All" nor a key of the table; and a mutant that
\* stays silent.
NotFoundSilent(item) == <<>>
NotFound(item) == <<Log(item.dest)>>

\* outgoingQueue.get returns a work item, and the loop branches on its
\* destination: "All" snapshots the table, a key of the table goes on to the
\* lookup, anything else is logged as not found.
SendLoopGet ==
    /\ sendPc = "get"
    /\ outgoingQueue # <<>>
    /\ LET item == Head(outgoingQueue) IN
        /\ cur' = item
        /\ snap' = client_sockets
        /\ endedAtGet' = { c \in Conns : hcon[c] = "ended" }
        /\ sent' = [c \in Conns |-> 0]
        /\ IF item.dest = "All"
           THEN /\ todo' = BroadcastTargets(client_sockets)
                /\ sendPc' = IF BroadcastTargets(client_sockets) = <<>>
                             THEN "done" ELSE "bcast"
                /\ outgoingQueue' = Tail(outgoingQueue)
           ELSE IF Has(client_sockets, item.dest)
           THEN /\ todo' = <<>>
                /\ sendPc' = "lookup"
                /\ outgoingQueue' = Tail(outgoingQueue)
           ELSE /\ todo' = <<>>
                /\ sendPc' = "done"
                /\ outgoingQueue' = Tail(outgoingQueue) \o NotFound(item)
    /\ UNCHANGED <<stopSeen, tableVars, incomingQueue, nInbound, routed, routerVars, acceptPc>>

\* sock.sendall on connection c: it returns when the peer's end is up; when
\* the peer's end is down it returns (the bytes are lost) or raises.
SendOutcomes(c) == IF peer[c] = "up" THEN {"ok"} ELSE {"ok", "fail"}

SeenAfter(c) ==
    IF cur = StopItem /\ peer[c] = "up" THEN stopSeen \cup {c} ELSE stopSeen

\* One iteration of the broadcast's for loop over the snapshot.
SendLoopBroadcast ==
    /\ sendPc = "bcast"
    /\ todo # <<>>
    /\ LET e == Head(todo) IN
        \/ /\ ~Eligible(e.name, cur.msg.Sender)
           /\ UNCHANGED <<sent, stopSeen, client_sockets, outgoingQueue>>
        \/ /\ Eligible(e.name, cur.msg.Sender)
           /\ \E o \in SendOutcomes(e.conn) :
                /\ sent' = [sent EXCEPT ![e.conn] = @ + 1]
                /\ IF o = "ok"
                   THEN /\ stopSeen' = SeenAfter(e.conn)
                        /\ UNCHANGED <<client_sockets, outgoingQueue>>
                   ELSE /\ outgoingQueue' =
                              Append(outgoingQueue, Log("-"))
                        /\ client_sockets' = Pop(client_sockets, e.name)
                        /\ UNCHANGED stopSeen
    /\ todo' = Tail(todo)
    /\ sendPc' = IF Tail(todo) = <<>> THEN "done" ELSE "bcast"
    /\ UNCHANGED <<cur, snap, endedAtGet, peer, ident, hcon, reconnOf,
                   incomingQueue, nInbound, routed, routerVars, acceptPc>>

\* The connection a unicast is written to: self.client_sockets[destination].
UnicastTarget(t, d) == Lookup(t, d)

\* The unicast branch after the membership test: the lookup raises KeyError
\* when the key is gone (caught by `except Exception`, which logs and breaks
\* out of the loop); otherwise the envelope is written to the connection, and
\* a failed write logs and pops the destination.
SendLoopUnicast ==
    /\ sendPc = "lookup"
    /\ IF ~Has(client_sockets, cur.dest)
       THEN /\ sendPc' = "dead"
            /\ outgoingQueue' = Append(outgoingQueue, Log("-"))
            /\ UNCHANGED <<sent, stopSeen, client_sockets>>
       ELSE LET c == UnicastTarget(client_sockets, cur.dest) IN
            /\ sendPc' = "done"
            /\ sent' = [sent EXCEPT ![c] = @ + 1]
            /\ \E o \in SendOutcomes(c) :
                 IF o = "ok"
                 THEN UNCHANGED <<client_sockets, outgoingQueue>>
                 ELSE /\ outgoingQueue' =
                            Append(outgoingQueue, Log("-"))
                      /\ client_sockets' = Pop(client_sockets, cur.dest)
            /\ UNCHANGED stopSeen
    /\ UNCHANGED <<cur, todo, snap, endedAtGet, peer, ident, hcon, reconnOf,
                   incomingQueue, nInbound, routed, routerVars, acceptPc>>

\* outgoingQueue.task_done(); time.sleep(0.001); then the loop condition.
SendLoopDone ==
    /\ sendPc = "done"
    /\ sendPc' = IF stopEvent THEN "exited" ELSE "get"
    /\ cur' = NoItem
    /\ todo' = <<>>
    /\ snap' = <<>>
    /\ endedAtGet' = {}
    /\ sent' = [c \in Conns |-> 0]
    /\ UNCHANGED <<stopSeen, tableVars, queueVars, routerVars, acceptPc>>

\* ------------------------------------------------------------------------
\* EventManager: route(), shutdown and cleanup (the hub's main thread)
\* ------------------------------------------------------------------------
\* What route() puts on the outgoing queue for a message that is neither a
\* registration nor addressed to the router.
Forward(m) ==
    <<Log("-"), [dest |-> m.Destination, msg |-> m]>>

\* EventManager._handleShutdown: one log entry, then the stop event is set.
ShutdownLog == Log("-")

\* The value _handleShutdown leaves the stop event with (Event.set()); and a
\* mutant that leaves the event as it was.
StopEventNotSet == FALSE
StopEventSet == TRUE

\* The names the router holds a registry entry for. EventManager keeps no
\* registry: __init__ creates no such attribute, and route() only logs a
\* registration, so the set is empty in every state.
registered_modules == {}

\* What route() puts on the outgoing queue for a message addressed to the
\* router whose type is not Stop; and two mutants: one forwards the message
\* as well, one logs nothing.
RouterCommandForwarded(m) ==
    <<Log("-"), [dest |-> m.Destination, msg |-> m]>>
RouterCommandSilent(m) == <<>>
RouterCommand(m) == <<Log("-")>>

\* What route() puts on the outgoing queue for an item that is not a dict:
\* message.get raises AttributeError, which is caught and logged.
RouteError(m) == <<Log("-")>>

\* EventManager.route on a non-empty incoming queue.
Route ==
    /\ routerPc = "run"
    /\ ~stopEvent
    /\ incomingQueue # <<>>
    /\ Room(2)
    /\ LET m == Head(incomingQueue) IN
        /\ incomingQueue' = Tail(incomingQueue)
        /\ routed' = Append(routed, m)
        /\ IF m = NonDictItem
           THEN /\ outgoingQueue' = outgoingQueue \o RouteError(m)
                /\ UNCHANGED stopEvent
           ELSE IF m.type = "register"
           THEN /\ outgoingQueue' = Append(outgoingQueue, Log("-"))
                /\ UNCHANGED stopEvent
           ELSE IF m.Destination = RouterName
           THEN IF m.type = "Stop"
                THEN /\ outgoingQueue' = outgoingQueue
                          \o <<Log("-"), ShutdownLog>>
                     /\ stopEvent' = StopEventSet
                ELSE /\ outgoingQueue' = outgoingQueue \o RouterCommand(m)
                     /\ UNCHANGED stopEvent
           ELSE /\ outgoingQueue' = outgoingQueue \o Forward(m)
                /\ UNCHANGED stopEvent
    /\ UNCHANGED <<routerPc, termIdx, proc, stopEnqueued, nInbound, tableVars,
                   sendVars, acceptPc>>

\* SIGINT or SIGTERM while the router runs: _handleShutdown.
Signal ==
    /\ routerPc = "run"
    /\ ~stopEvent
    /\ outgoingQueue' = Append(outgoingQueue, ShutdownLog)
    /\ stopEvent' = StopEventSet
    /\ UNCHANGED <<routerPc, termIdx, proc, stopEnqueued, incomingQueue, nInbound, routed,
                   tableVars, sendVars, acceptPc>>

\* run(): `while not self._stopEvent.is_set()` ends, `finally` starts.
RunLoopExit ==
    /\ routerPc = "run"
    /\ stopEvent
    /\ routerPc' = "cleanup"
    /\ UNCHANGED <<stopEvent, termIdx, proc, stopEnqueued, queueVars, tableVars,
                   sendVars, acceptPc>>

\* What _cleanup puts on the outgoing queue before its loop over the process
\* records; and a mutant that leaves the broadcast out.
CleanupItemsNoStop ==
    <<Log("-"), Log("-")>>
CleanupItems ==
    <<Log("-"), StopItem, Log("-")>>

\* _cleanup up to its for loop.
CleanupBroadcast ==
    /\ routerPc = "cleanup"
    /\ outgoingQueue' = outgoingQueue \o CleanupItems
    /\ stopEnqueued' = (\E i \in 1..Len(CleanupItems) : CleanupItems[i] = StopItem)
    /\ routerPc' = "terminate"
    /\ termIdx' = 1
    /\ UNCHANGED <<stopEvent, proc, incomingQueue, nInbound, routed, tableVars, sendVars,
                   acceptPc>>

\* A mutant of the iteration: the record is terminated without is_alive()
\* being asked.
CleanupTerminateUnasked ==
    /\ routerPc = "terminate"
    /\ termIdx <= Len(runningProcesses)
    /\ proc' = [proc EXCEPT ![runningProcesses[termIdx]] = "terminated"]
    /\ outgoingQueue' = Append(outgoingQueue, Log("-"))
    /\ termIdx' = termIdx + 1
    /\ UNCHANGED <<stopEvent, routerPc, stopEnqueued, incomingQueue, nInbound, routed,
                   tableVars, sendVars, acceptPc>>

\* One iteration of _cleanup's loop: a process that is alive is terminated,
\* joined for at most one second and logged; a dead one is skipped.
CleanupTerminate ==
    /\ routerPc = "terminate"
    /\ termIdx <= Len(runningProcesses)
    /\ LET p == runningProcesses[termIdx] IN
        IF proc[p] = "alive"
        THEN /\ proc' = [proc EXCEPT ![p] = "terminated"]
             /\ outgoingQueue' = Append(outgoingQueue, Log("-"))
        ELSE UNCHANGED <<proc, outgoingQueue>>
    /\ termIdx' = termIdx + 1
    /\ UNCHANGED <<stopEvent, routerPc, stopEnqueued, incomingQueue, nInbound, routed,
                   tableVars, sendVars, acceptPc>>

\* _cleanup returns; run() goes on to commThread.join().
CleanupEnd ==
    /\ routerPc = "terminate"
    /\ termIdx > Len(runningProcesses)
    /\ routerPc' = "join"
    /\ UNCHANGED <<stopEvent, termIdx, proc, stopEnqueued, queueVars, tableVars,
                   sendVars, acceptPc>>

\* commThread.join() returns once the accept loop has ended; run() logs and
\* returns.
RunJoin ==
    /\ routerPc = "join"
    /\ acceptPc = "exited"
    /\ routerPc' = "done"
    /\ outgoingQueue' = Append(outgoingQueue, Log("-"))
    /\ UNCHANGED <<stopEvent, termIdx, proc, stopEnqueued, incomingQueue, nInbound, routed,
                   tableVars, sendVars, acceptPc>>

\* A supervised process ends by itself. Only _cleanup reads the state of a
\* process, so an earlier exit is represented by one during _cleanup.
ProcessExit(p) ==
    /\ proc[p] = "alive"
    /\ routerPc \in {"cleanup", "terminate"}
    /\ proc' = [proc EXCEPT ![p] = "exited"]
    /\ UNCHANGED <<stopEvent, routerPc, termIdx, stopEnqueued, queueVars, tableVars,
                   sendVars, acceptPc>>

\* ------------------------------------------------------------------------
\* Spec: the hub from construction until _cleanup starts
\* ------------------------------------------------------------------------
Next ==
    \/ \E c \in Conns, id \in Idents : PeerConnect(c, id) /\ UNCHANGED <<framingVars, extVars>>
    \/ AcceptConn /\ UNCHANGED <<framingVars, extVars>>
    \/ \E c \in Conns : \E m \in Sendable(c) : ServerHandleData(c, m) /\ UNCHANGED <<framingVars, extVars>>
    \/ \E c \in Conns : PeerDrop(c) /\ UNCHANGED <<framingVars, extVars>>
    \/ \E c \in Conns : ServerHandleClosed(c) /\ UNCHANGED <<framingVars, extVars>>
    \/ \E c \in Conns : ServerHandleStop(c) /\ UNCHANGED <<framingVars, extVars>>
    \/ AcceptExit /\ UNCHANGED <<framingVars, extVars>>
    \/ SendLoopExit /\ UNCHANGED <<framingVars, extVars>>
    \/ SendLoopGet /\ UNCHANGED <<framingVars, extVars>>
    \/ SendLoopBroadcast /\ UNCHANGED <<framingVars, extVars>>
    \/ SendLoopUnicast /\ UNCHANGED <<framingVars, extVars>>
    \/ SendLoopDone /\ UNCHANGED <<framingVars, extVars>>
    \/ Route /\ UNCHANGED <<framingVars, extVars>>
    \/ RunLoopExit /\ UNCHANGED <<framingVars, extVars>>

Spec == Init /\ [][Next]_vars

\* ------------------------------------------------------------------------
\* SpecShutdown: a hub with its peers connected, through shutdown
\* ------------------------------------------------------------------------
\* The logger and the two supervised modules have connected and been
\* accepted, and the log entries of that have been delivered to the logger;
\* the incoming queue is empty (the shutdown will come from a signal) or
\* holds a Stop command sent by a peer, and the outgoing queue is empty or
\* holds a broadcast of a peer that the router has forwarded.
InitShutdown ==
    /\ client_sockets = <<[name |-> "Logger", conn |-> 1],
                          [name |-> "A", conn |-> 2],
                          [name |-> "B", conn |-> 3]>>
    /\ incomingQueue \in {<<>>, <<Envelope("A", RouterName, "Stop")>>}
    /\ outgoingQueue \in {<<>>, <<[dest |-> "All", msg |-> Envelope("B", "All", "data")]>>}
    /\ peer = [c \in Conns |-> IF c <= 3 THEN "up" ELSE "none"]
    /\ ident = [c \in Conns |-> IF c = 1 THEN "Logger" ELSE IF c = 2 THEN "A"
                                ELSE IF c = 3 THEN "B" ELSE NoName]
    /\ hcon = [c \in Conns |-> IF c <= 3 THEN "run" ELSE "none"]
    /\ acceptPc = "accept"
    /\ sendPc = "get"
    /\ cur = NoItem
    /\ todo = <<>>
    /\ stopEvent = FALSE
    /\ routerPc = "run"
    /\ termIdx = 1
    /\ proc = [p \in {runningProcesses[i] : i \in 1..Len(runningProcesses)} |-> "alive"]
    /\ snap = <<>>
    /\ endedAtGet = {}
    /\ sent = [c \in Conns |-> 0]
    /\ stopSeen = {}
    /\ stopEnqueued = FALSE
    /\ reconnOf = [c \in Conns |-> {}]
    /\ nInbound = Len(incomingQueue)
    /\ routed = <<>>
    /\ FramingIdle
    /\ ExtIdle

NextShutdown ==
    \/ \E c \in Conns : PeerDrop(c) /\ UNCHANGED <<framingVars, extVars>>
    \/ \E c \in Conns : ServerHandleClosed(c) /\ UNCHANGED <<framingVars, extVars>>
    \/ \E c \in Conns : ServerHandleStop(c) /\ UNCHANGED <<framingVars, extVars>>
    \/ AcceptExit /\ UNCHANGED <<framingVars, extVars>>
    \/ SendLoopExit /\ UNCHANGED <<framingVars, extVars>>
    \/ SendLoopGet /\ UNCHANGED <<framingVars, extVars>>
    \/ SendLoopBroadcast /\ UNCHANGED <<framingVars, extVars>>
    \/ SendLoopUnicast /\ UNCHANGED <<framingVars, extVars>>
    \/ SendLoopDone /\ UNCHANGED <<framingVars, extVars>>
    \/ Route /\ UNCHANGED <<framingVars, extVars>>
    \/ RunLoopExit /\ UNCHANGED <<framingVars, extVars>>
    \/ Signal /\ UNCHANGED <<framingVars, extVars>>
    \/ CleanupBroadcast /\ UNCHANGED <<framingVars, extVars>>
    \/ CleanupTerminate /\ UNCHANGED <<framingVars, extVars>>
    \/ CleanupEnd /\ UNCHANGED <<framingVars, extVars>>
    \/ RunJoin /\ UNCHANGED <<framingVars, extVars>>
    \/ \E p \in DOMAIN proc : ProcessExit(p) /\ UNCHANGED <<framingVars, extVars>>

SpecShutdown == InitShutdown /\ [][NextShutdown]_vars

\* ------------------------------------------------------------------------
\* SpecRouter: the router fed with every kind of inbound item
\* ------------------------------------------------------------------------
\* Items a receive loop can put on the incoming queue: control messages
\* addressed to the router, messages for a peer or for all, a registration
\* addressed to a peer, envelopes that lack the Sender or the Destination
\* key, an envelope whose Destination is the empty string, and a JSON value
\* that is not an object.
RouterInputs ==
    { Envelope("A", RouterName, t) : t \in MsgTypes }
    \cup { Envelope("A", "B", "data"), Envelope("A", "All", "data"),
           Envelope("A", "B", "register") }
    \cup { Envelope(NoneValue, "B", "data"), Envelope("A", NoneValue, "data"),
           Envelope("A", NoName, "data"), NonDictItem }

InputSeqs == UNION { [1..n -> RouterInputs] : n \in 1..MaxRouted }

\* The logger and the two supervised modules are connected, the outgoing
\* queue has been drained, and the receive loops have put one or more items
\* on the incoming queue.
InitRouter ==
    /\ client_sockets = <<[name |-> "Logger", conn |-> 1],
                          [name |-> "A", conn |-> 2],
                          [name |-> "B", conn |-> 3]>>
    /\ incomingQueue \in InputSeqs
    /\ outgoingQueue = <<>>
    /\ peer = [c \in Conns |-> IF c <= 3 THEN "up" ELSE "none"]
    /\ ident = [c \in Conns |-> IF c = 1 THEN "Logger" ELSE IF c = 2 THEN "A"
                                ELSE IF c = 3 THEN "B" ELSE NoName]
    /\ hcon = [c \in Conns |-> IF c <= 3 THEN "run" ELSE "none"]
    /\ acceptPc = "accept"
    /\ sendPc = "get"
    /\ cur = NoItem
    /\ todo = <<>>
    /\ stopEvent = FALSE
    /\ routerPc = "run"
    /\ termIdx = 1
    /\ proc = [p \in {runningProcesses[i] : i \in 1..Len(runningProcesses)} |-> "alive"]
    /\ snap = <<>>
    /\ endedAtGet = {}
    /\ sent = [c \in Conns |-> 0]
    /\ stopSeen = {}
    /\ stopEnqueued = FALSE
    /\ reconnOf = [c \in Conns |-> {}]
    /\ nInbound = Len(incomingQueue)
    /\ routed = <<>>
    /\ FramingIdle
    /\ ExtIdle

NextRouter ==
    \/ Route /\ UNCHANGED <<framingVars, extVars>>
    \/ RunLoopExit /\ UNCHANGED <<framingVars, extVars>>
    \/ SendLoopGet /\ UNCHANGED <<framingVars, extVars>>
    \/ SendLoopBroadcast /\ UNCHANGED <<framingVars, extVars>>
    \/ SendLoopUnicast /\ UNCHANGED <<framingVars, extVars>>
    \/ SendLoopDone /\ UNCHANGED <<framingVars, extVars>>
    \/ SendLoopExit /\ UNCHANGED <<framingVars, extVars>>
    \/ CleanupBroadcast /\ UNCHANGED <<framingVars, extVars>>
    \/ CleanupTerminate /\ UNCHANGED <<framingVars, extVars>>
    \/ CleanupEnd /\ UNCHANGED <<framingVars, extVars>>

SpecRouter == InitRouter /\ [][NextRouter]_vars

\* The router's main thread keeps running: route() returns within its
\* timeout, and every step of run() and _cleanup is bounded.
SpecRouterFair ==
    /\ SpecRouter
    /\ WF_vars(Route /\ UNCHANGED <<framingVars, extVars>>)
    /\ WF_vars(RunLoopExit /\ UNCHANGED <<framingVars, extVars>>)
    /\ WF_vars(CleanupBroadcast /\ UNCHANGED <<framingVars, extVars>>)
    /\ WF_vars(CleanupTerminate /\ UNCHANGED <<framingVars, extVars>>)
    /\ WF_vars(CleanupEnd /\ UNCHANGED <<framingVars, extVars>>)

\* ------------------------------------------------------------------------
\* SpecFraming: one receive loop fed by a stream in arbitrary chunks
\* ------------------------------------------------------------------------
\* The envelopes the framing specification draws from.
FramingEnvelopes ==
    { Envelope("A", "B", "data"), Envelope("B", "All", "Stop") }

\* The units a sender may write: an encoded envelope, an empty line, a
\* truncated object, or a line holding a byte that is not UTF-8.
ValidUnits == { Encode(m) : m \in FramingEnvelopes }
TruncatedUnit == <<"{", "A", "B", NL>>
EmptyUnit == <<NL>>
BadUtf8Unit == <<BadByte, NL>>
AllUnits == ValidUnits \cup {TruncatedUnit, EmptyUnit, BadUtf8Unit}

\* Length of the longest unit, delimiter included.
UnitLen == Len(Encode(Envelope("A", "B", "data")))

RECURSIVE Concat(_)
Concat(us) == IF us = <<>> THEN <<>> ELSE Head(us) \o Concat(Tail(us))

UnitSeqs == UNION { [1..n -> AllUnits] : n \in 1..MaxUnits }

InitFraming ==
    /\ units \in UnitSeqs
    /\ stream = Concat(units)
    /\ buffer = <<>>
    /\ rxQueue = <<>>
    /\ rxErrs = 0
    /\ rxPc = "run"
    /\ cuts = {}
    /\ HubIdle
    /\ ExtIdle

\* How a read of n bytes cuts the stream.
CutKind(n) ==
    IF n = Len(stream) THEN "end"
    ELSE IF stream[n] = NL THEN "afterNL"
    ELSE IF stream[n + 1] = NL THEN "beforeNL"
    ELSE "mid"

NLCount(s) == Cardinality({ i \in 1..Len(s) : s[i] = NL })

\* conn.recv(4096) returns the next n bytes; they decode and are handled.
RecvChunk(n) ==
    /\ rxPc = "run"
    /\ n \in 1..Len(stream)
    /\ Utf8Ok(SubSeq(stream, 1, n))
    /\ LET r == HandleData(buffer, SubSeq(stream, 1, n)) IN
        /\ buffer' = r.buffer
        /\ rxQueue' = rxQueue \o r.msgs
        /\ rxErrs' = rxErrs + r.errs
    /\ cuts' = cuts \cup {CutKind(n)}
               \cup (IF NLCount(SubSeq(stream, 1, n)) >= 2 THEN {"many"} ELSE {})
    /\ stream' = SubSeq(stream, n + 1, Len(stream))
    /\ UNCHANGED <<units, rxPc>>

\* conn.recv(4096).decode('utf-8') raises UnicodeDecodeError: the loop's
\* `except Exception` logs an error and breaks.
RecvUndecodable(n) ==
    /\ rxPc = "run"
    /\ n \in 1..Len(stream)
    /\ ~Utf8Ok(SubSeq(stream, 1, n))
    /\ rxPc' = "error"
    /\ rxErrs' = rxErrs + 1
    /\ stream' = SubSeq(stream, n + 1, Len(stream))
    /\ UNCHANGED <<units, buffer, rxQueue, cuts>>

NextFraming ==
    \/ \E n \in 1..(UnitLen * MaxUnits) : RecvChunk(n) /\ UNCHANGED <<hubVars, extVars>>
    \/ \E n \in 1..(UnitLen * MaxUnits) : RecvUndecodable(n) /\ UNCHANGED <<hubVars, extVars>>

SpecFraming == InitFraming /\ [][NextFraming]_vars

\* ------------------------------------------------------------------------
\* SpecAccept: one new connection, its identification read by the accept
\* loop and the rest of its stream by its receive loop
\* ------------------------------------------------------------------------
\* The size of the accept loop's only read: conn.recv(1024).
IdentRecvSize == 1024

\* The first unit a peer writes, json.dumps({"name": n}) + newline
\* (_runClient), and three first units that name no peer: an empty name, an
\* object without the key, and bytes that are not JSON.
IdentUnit(n) == <<"{", "name", n, "}", NL>>
MissingNameUnit == <<"{", "}", NL>>
GarbageUnit == <<Garbage, NL>>
FirstUnits ==
    { IdentUnit("A"), IdentUnit(NoName), MissingNameUnit, GarbageUnit }

\* What the peer that writes the first unit u identifies as.
IdentOf(u) ==
    IF u = IdentUnit("A") THEN "A"
    ELSE IF u = GarbageUnit THEN Garbage
    ELSE NoName

\* json.loads on the data of the first read, then initial_msg.get('name'):
\* the data must be one JSON object, followed by nothing but whitespace;
\* anything else (part of an object, or an object followed by more data)
\* raises.
IdentLoads(data) ==
    LET d == IF data # <<>> /\ data[Len(data)] = NL
             THEN SubSeq(data, 1, Len(data) - 1) ELSE data
    IN IF Len(d) = 4 /\ d[1] = "{" /\ d[2] = "name" /\ d[4] = "}"
       THEN [ok |-> TRUE, name |-> d[3]]
       ELSE IF d = <<"{", "}">>
       THEN [ok |-> TRUE, name |-> NoneValue]
       ELSE [ok |-> FALSE, name |-> NoneValue]

\* `if client_name:` in the accept loop.
Truthy(n) == n \notin {NoName, NoneValue}

\* The peer has connected and written its first unit followed by up to
\* MaxUnits - 1 envelopes; the accept loop has not yet returned from accept.
InitAccept ==
    /\ \E u \in FirstUnits :
         \E n \in 0..(MaxUnits - 1) : \E es \in [1..n -> ValidUnits] :
            /\ units = <<u>> \o es
            /\ ident = [c \in Conns |-> IF c = 1 THEN IdentOf(u) ELSE NoName]
    /\ stream = Concat(units)
    /\ buffer = <<>>
    /\ rxQueue = <<>>
    /\ rxErrs = 0
    /\ rxPc = "wait"
    /\ cuts = {}
    /\ client_sockets = <<>>
    /\ incomingQueue = <<>>
    /\ outgoingQueue = <<>>
    /\ peer = [c \in Conns |-> IF c = 1 THEN "up" ELSE "none"]
    /\ hcon = [c \in Conns |-> "none"]
    /\ acceptPc = "accept"
    /\ sendPc = "get"
    /\ cur = NoItem
    /\ todo = <<>>
    /\ stopEvent = FALSE
    /\ routerPc = "run"
    /\ termIdx = 1
    /\ proc = [p \in {runningProcesses[i] : i \in 1..Len(runningProcesses)} |-> "alive"]
    /\ snap = <<>>
    /\ endedAtGet = {}
    /\ sent = [c \in Conns |-> 0]
    /\ stopSeen = {}
    /\ stopEnqueued = FALSE
    /\ reconnOf = [c \in Conns |-> {}]
    /\ nInbound = 0
    /\ routed = <<>>
    /\ ExtIdle

\* How the first read cuts the stream: inside the first unit, right after
\* it (with or without its newline), or beyond it.
FirstCutKind(k) ==
    IF k < Len(units[1]) - 1 THEN "identPartial"
    ELSE IF k <= Len(units[1]) THEN "identAlone"
    ELSE "identWithNext"

\* accept() returns connection 1 and conn.recv(1024) returns the first k
\* bytes of its stream: a name binds the connection and starts its receive
\* loop, a missing or empty name closes it, and data that json.loads
\* rejects raises into `except Exception`, which logs and goes on.
AcceptRead(k) ==
    /\ acceptPc = "accept"
    /\ hcon[1] = "none"
    /\ peer[1] = "up"
    /\ rxPc = "wait"
    /\ k \in 1..Len(stream)
    /\ k <= IdentRecvSize
    /\ LET r == IdentLoads(SubSeq(stream, 1, k)) IN
        IF r.ok /\ Truthy(r.name)
        THEN /\ client_sockets' = Bind(client_sockets, r.name, 1)
             /\ hcon' = [hcon EXCEPT ![1] = "run"]
             /\ rxPc' = "run"
        ELSE IF r.ok
        THEN /\ hcon' = [hcon EXCEPT ![1] = "closed"]
             /\ rxPc' = "closed"
             /\ UNCHANGED client_sockets
        ELSE /\ hcon' = [hcon EXCEPT ![1] = "leak"]
             /\ rxPc' = "leak"
             /\ UNCHANGED client_sockets
    /\ outgoingQueue' = outgoingQueue \o <<Log("-"), Log("-")>>
    /\ stream' = SubSeq(stream, k + 1, Len(stream))
    /\ cuts' = cuts \cup {FirstCutKind(k)}
    /\ UNCHANGED <<units, buffer, rxQueue, rxErrs, peer, ident, reconnOf,
                   incomingQueue, nInbound, routed, sendVars, routerVars,
                   acceptPc>>

NextAccept ==
    \/ \E k \in 1..(UnitLen * MaxUnits) : AcceptRead(k) /\ UNCHANGED extVars
    \/ \E n \in 1..(UnitLen * MaxUnits) : RecvChunk(n) /\ UNCHANGED <<hubVars, extVars>>

SpecAccept == InitAccept /\ [][NextAccept]_vars

\* ------------------------------------------------------------------------
\* Communicator.run in the hub: _initializeServer, then _runServer
\* ------------------------------------------------------------------------
\* What server_socket.bind ends with: it returns, or raises OSError (the
\* address is in use or cannot be assigned).
BindOutcomes == {"ok", "inuse"}

\* _initializeServer: the socket is created and bound. When bind returns,
\* listen is called, an entry is logged and the dispatch thread is started;
\* when it raises, the error is logged and the method returns.
InitializeServer(o) ==
    /\ acceptPc = "init"
    /\ o \in BindOutcomes
    /\ outgoingQueue' = Append(outgoingQueue, Log("-"))
    /\ IF o = "ok"
       THEN /\ server_socket' = "listening"
            /\ sendPc' = "get"
       ELSE /\ server_socket' = "unbound"
            /\ UNCHANGED sendPc
    /\ acceptPc' = "initialized"
    /\ UNCHANGED <<tableVars, incomingQueue, nInbound, routed, cur, todo, snap,
                   endedAtGet, sent, stopSeen, routerVars>>

\* run() calls _runServer whatever _initializeServer did: the accept loop
\* is entered.
RunServer ==
    /\ acceptPc = "initialized"
    /\ acceptPc' = "accept"
    /\ UNCHANGED <<tableVars, queueVars, sendVars, routerVars, server_socket>>

\* accept() on a socket that is not listening raises OSError, which the
\* loop's `except Exception` logs; the loop goes on.
AcceptError ==
    /\ acceptPc = "accept"
    /\ server_socket = "unbound"
    /\ ~stopEvent
    /\ Room(1)
    /\ outgoingQueue' = Append(outgoingQueue, Log("-"))
    /\ UNCHANGED <<acceptPc, tableVars, incomingQueue, nInbound, routed,
                   sendVars, routerVars, server_socket>>

\* The identification of a peer that has connected and written nothing.
Silent == "..."

\* A peer connects and sends nothing.
PeerConnectSilent(c) ==
    /\ server_socket = "listening"
    /\ peer[c] = "none"
    /\ \A d \in Conns : d < c => peer[d] # "none"
    /\ peer' = [peer EXCEPT ![c] = "up"]
    /\ ident' = [ident EXCEPT ![c] = Silent]
    /\ UNCHANGED <<client_sockets, hcon, reconnOf, queueVars, sendVars,
                   routerVars, acceptPc, server_socket>>

\* A peer that has sent nothing closes its connection before the hub has
\* read from it.
SilentPeerDrop(c) ==
    /\ peer[c] = "up"
    /\ ident[c] = Silent
    /\ hcon[c] = "none"
    /\ peer' = [peer EXCEPT ![c] = "down"]
    /\ UNCHANGED <<client_sockets, ident, hcon, reconnOf, queueVars, sendVars,
                   routerVars, acceptPc, server_socket>>

\* The connection accept() returns next.
NextPending == CHOOSE x \in Pending : \A y \in Pending : x <= y

\* accept() returns the connection of a peer that has written nothing: the
\* loop logs and calls conn.recv(1024) on the accepted socket, which is in
\* blocking mode (settimeout(1.0) comes after the identification).
AcceptSilent ==
    /\ acceptPc = "accept"
    /\ Pending # {}
    /\ ident[NextPending] = Silent
    /\ Room(1)
    /\ outgoingQueue' = Append(outgoingQueue, Log("-"))
    /\ acceptPc' = "identify"
    /\ UNCHANGED <<tableVars, incomingQueue, nInbound, routed, sendVars,
                   routerVars, server_socket>>

\* The blocked recv returns b'' because the peer closed: json.loads raises,
\* `except Exception` logs, and the loop goes on without closing the
\* connection.
AcceptIdentifyEnd ==
    /\ acceptPc = "identify"
    /\ peer[NextPending] = "down"
    /\ outgoingQueue' = Append(outgoingQueue, Log("-"))
    /\ hcon' = [hcon EXCEPT ![NextPending] = "leak"]
    /\ acceptPc' = "accept"
    /\ UNCHANGED <<client_sockets, peer, ident, reconnOf, incomingQueue,
                   nInbound, routed, sendVars, routerVars, server_socket>>

\* ------------------------------------------------------------------------
\* SpecStartup: the hub transport from run() until its loops end
\* ------------------------------------------------------------------------
InitStartup ==
    /\ client_sockets = <<>>
    /\ incomingQueue = <<>>
    /\ outgoingQueue = <<>>
    /\ peer = [c \in Conns |-> "none"]
    /\ ident = [c \in Conns |-> NoName]
    /\ hcon = [c \in Conns |-> "none"]
    /\ acceptPc = "init"
    /\ sendPc = "none"
    /\ cur = NoItem
    /\ todo = <<>>
    /\ stopEvent = FALSE
    /\ routerPc = "run"
    /\ termIdx = 1
    /\ proc = [p \in {runningProcesses[i] : i \in 1..Len(runningProcesses)} |-> "alive"]
    /\ snap = <<>>
    /\ endedAtGet = {}
    /\ sent = [c \in Conns |-> 0]
    /\ stopSeen = {}
    /\ stopEnqueued = FALSE
    /\ reconnOf = [c \in Conns |-> {}]
    /\ nInbound = 0
    /\ routed = <<>>
    /\ server_socket = "None"
    /\ FramingIdle
    /\ ClientIdle
    /\ OrderIdle
    /\ ModuleIdle
    /\ AppIdle

\* The steps of the hub transport's own threads.
HubStep ==
    \/ \E o \in BindOutcomes : InitializeServer(o)
    \/ RunServer
    \/ AcceptError
    \/ AcceptConn /\ UNCHANGED server_socket
    \/ AcceptSilent
    \/ AcceptIdentifyEnd
    \/ AcceptExit /\ UNCHANGED server_socket
    \/ \E c \in Conns : ServerHandleClosed(c) /\ UNCHANGED server_socket
    \/ \E c \in Conns : ServerHandleStop(c) /\ UNCHANGED server_socket
    \/ SendLoopGet /\ UNCHANGED server_socket
    \/ SendLoopUnicast /\ UNCHANGED server_socket
    \/ SendLoopDone /\ UNCHANGED server_socket
    \/ SendLoopExit /\ UNCHANGED server_socket

NextStartup ==
    \/ \E o \in BindOutcomes : InitializeServer(o) /\ UNCHANGED <<framingVars, moduleVars, appVars, clientVars, orderVars>>
    \/ RunServer /\ UNCHANGED <<framingVars, moduleVars, appVars, clientVars, orderVars>>
    \/ AcceptError /\ UNCHANGED <<framingVars, moduleVars, appVars, clientVars, orderVars>>
    \/ \E c \in Conns, id \in Idents : PeerConnect(c, id) /\ UNCHANGED <<framingVars, extVars>>
    \/ \E c \in Conns : PeerConnectSilent(c) /\ UNCHANGED <<framingVars, moduleVars, appVars, clientVars, orderVars>>
    \/ \E c \in Conns : SilentPeerDrop(c) /\ UNCHANGED <<framingVars, moduleVars, appVars, clientVars, orderVars>>
    \/ \E c \in Conns : PeerDrop(c) /\ UNCHANGED <<framingVars, extVars>>
    \/ AcceptConn /\ UNCHANGED <<framingVars, extVars>>
    \/ AcceptSilent /\ UNCHANGED <<framingVars, moduleVars, appVars, clientVars, orderVars>>
    \/ AcceptIdentifyEnd /\ UNCHANGED <<framingVars, moduleVars, appVars, clientVars, orderVars>>
    \/ AcceptExit /\ UNCHANGED <<framingVars, extVars>>
    \/ \E c \in Conns : ServerHandleClosed(c) /\ UNCHANGED <<framingVars, extVars>>
    \/ \E c \in Conns : ServerHandleStop(c) /\ UNCHANGED <<framingVars, extVars>>
    \/ SendLoopGet /\ UNCHANGED <<framingVars, extVars>>
    \/ SendLoopUnicast /\ UNCHANGED <<framingVars, extVars>>
    \/ SendLoopDone /\ UNCHANGED <<framingVars, extVars>>
    \/ SendLoopExit /\ UNCHANGED <<framingVars, extVars>>
    \/ Signal /\ UNCHANGED <<framingVars, extVars>>

SpecStartup == InitStartup /\ [][NextStartup]_vars

\* Every thread of the hub transport keeps running as long as it has a step
\* to take. Nothing is assumed of the peers or of the router.
SpecStartupFair ==
    /\ SpecStartup
    /\ WF_vars(HubStep /\ UNCHANGED <<framingVars, moduleVars, appVars, clientVars, orderVars>>)

\* ------------------------------------------------------------------------
\* Communicator._runClient: the peer's connect-and-serve loop, with its
\* receive loop and its send thread
\* ------------------------------------------------------------------------
\* The name the peer transport was constructed with.
ClientName == "A"

ClientPcStates ==
    {"while", "connect", "identify", "serve", "join", "delay", "exited", "dead"}

\* The sleep of the retry branch when the configuration has no
\* 'client_reconnect_delay_s'.
DefaultReconnectDelay == 3

\* The configurations the transport is constructed with: without the key,
\* or with a delay of one second.
ClientConfigs == {<<>>, <<1>>}

\* self.config.get('client_reconnect_delay_s', 3); and a mutant that sleeps
\* no time at all.
ReconnectDelayNone(config) == 0
ReconnectDelay(config) ==
    IF config = <<>> THEN DefaultReconnectDelay ELSE config[1]

\* Communicator.log in a peer: a LogMessage envelope put on the peer's own
\* outgoing queue.
ClientLog ==
    [Sender |-> ClientName, Destination |-> "Logger", type |-> "LogMessage",
     payload |-> <<"-">>]

\* Room on the peer's outgoing queue for k more items.
ClientRoom(k) == Len(clientOut) + k <= MaxClientQueue

\* self.log(...) in a peer: the entry is put on the outgoing queue. Of the
\* entries waiting there the model keeps at most MaxClientQueue.
ClientLogPut(q) ==
    IF Len(q) < MaxClientQueue THEN Append(q, ClientLog) ELSE q

\* What connect() and the sendall of the identification can end with: they
\* return, or raise ConnectionRefusedError, socket.timeout, or another
\* OSError ("reset": ConnectionResetError, BrokenPipeError, no route).
ConnectOutcomes == {"ok", "refused", "timeout", "reset"}

\* The exceptions of the retry branch: except (ConnectionRefusedError,
\* socket.timeout).
Retried == {"refused", "timeout"}

\* The retry branch: log, close the socket, sleep the reconnect delay.
ClientRetry(e) ==
    /\ clientOut' = ClientLogPut(clientOut)
    /\ conn' = "None"
    /\ link' = "none"
    /\ lastError' = e
    /\ delayFor' = ReconnectDelay(clientConfig)
    /\ clientPc' = "delay"

\* `except Exception`: log, close the socket, break out of the loop.
ClientFatal(e) ==
    /\ clientOut' = ClientLogPut(clientOut)
    /\ conn' = "None"
    /\ link' = "none"
    /\ lastError' = e
    /\ delayFor' = 0
    /\ clientPc' = "dead"

\* `while not stopEvent.is_set()`: the loop ends and the socket, if any, is
\* closed; or a socket is created for the next attempt.
ClientWhile ==
    /\ clientPc = "while"
    /\ IF clientStop
       THEN /\ clientPc' = "exited"
            /\ conn' = "None"
            /\ link' = "none"
       ELSE /\ clientPc' = "connect"
            /\ conn' = "socket"
            /\ link' = "none"
    /\ UNCHANGED <<clientSendPc, clientOut, clientStop, lastError, delayFor,
                   clientConfig>>

\* A mutant of the connect step: the send thread is started as soon as the
\* connection is made, ahead of the identification.
ClientConnectThenSend(o) ==
    /\ clientPc = "connect"
    /\ o \in ConnectOutcomes
    /\ IF o = "ok"
       THEN /\ conn' = "connected"
            /\ link' = "up"
            /\ clientPc' = "identify"
            /\ clientSendPc' = "run"
            /\ UNCHANGED <<clientOut, lastError, delayFor>>
       ELSE IF o \in Retried
       THEN ClientRetry(o) /\ UNCHANGED clientSendPc
       ELSE ClientFatal(o) /\ UNCHANGED clientSendPc
    /\ UNCHANGED <<clientStop, clientConfig>>

\* self.conn.connect((address, port)) and settimeout(1.0).
ClientConnect(o) ==
    /\ clientPc = "connect"
    /\ o \in ConnectOutcomes
    /\ IF o = "ok"
       THEN /\ conn' = "connected"
            /\ link' = "up"
            /\ clientPc' = "identify"
            /\ UNCHANGED <<clientOut, lastError, delayFor>>
       ELSE IF o \in Retried
       THEN ClientRetry(o)
       ELSE ClientFatal(o)
    /\ UNCHANGED <<clientSendPc, clientStop, clientConfig>>

\* What a write on the connection ends with: it returns while the hub's end
\* is open; after the hub closed its end the first write still returns and
\* is answered by a reset; after a reset every write raises.
WriteOutcome == IF link = "reset" THEN "reset" ELSE "ok"
LinkAfterWrite == IF link = "closed" THEN "reset" ELSE link

\* sendall of {"name": self.name}, the INFO entry, the start of the send
\* thread and the call of _clientReceiveLoop.
ClientIdentify ==
    /\ clientPc = "identify"
    /\ IF WriteOutcome = "ok"
       THEN /\ clientOut' = ClientLogPut(clientOut)
            /\ link' = LinkAfterWrite
            /\ clientSendPc' = "run"
            /\ clientPc' = "serve"
            /\ UNCHANGED <<conn, lastError, delayFor>>
       ELSE IF WriteOutcome \in Retried
       THEN ClientRetry(WriteOutcome) /\ UNCHANGED clientSendPc
       ELSE ClientFatal(WriteOutcome) /\ UNCHANGED clientSendPc
    /\ UNCHANGED <<clientStop, clientConfig>>

\* _clientReceiveLoop returns: its loop condition finds the stop event set,
\* or recv returns no data (the hub closed) or raises (reset), which is
\* logged. Inbound data is handled as in the hub's receive loop.
ClientReceiveEnd ==
    /\ clientPc = "serve"
    /\ \/ /\ clientStop
          /\ UNCHANGED clientOut
       \/ /\ link \in {"closed", "reset"}
          /\ clientOut' = ClientLogPut(clientOut)
    /\ clientPc' = "join"
    /\ UNCHANGED <<conn, link, clientSendPc, clientStop, lastError, delayFor,
                   clientConfig>>

\* A mutant of the join: the loop goes round without waiting for the send
\* thread to end.
ClientJoinNoWait ==
    /\ clientPc = "join"
    /\ clientPc' = "while"
    /\ UNCHANGED <<conn, link, clientSendPc, clientOut, clientStop, lastError,
                   delayFor, clientConfig>>

\* send_thread.join() returns once the send thread has ended; then
\* time.sleep(0.001) and the loop condition.
ClientJoin ==
    /\ clientPc = "join"
    /\ clientSendPc = "ended"
    /\ clientPc' = "while"
    /\ clientSendPc' = "none"
    /\ UNCHANGED <<conn, link, clientOut, clientStop, lastError, delayFor,
                   clientConfig>>

\* time.sleep(reconnect_delay) returns.
ClientDelayEnd ==
    /\ clientPc = "delay"
    /\ clientPc' = "while"
    /\ delayFor' = 0
    /\ UNCHANGED <<conn, link, clientSendPc, clientOut, clientStop, lastError,
                   clientConfig>>

\* A mutant of the send loop: a message whose write failed is left at the
\* head of the queue for the next connection.
ClientSendWriteRetry ==
    /\ clientSendPc = "run"
    /\ clientOut # <<>>
    /\ IF WriteOutcome = "ok"
       THEN /\ clientOut' = Tail(clientOut)
            /\ link' = LinkAfterWrite
            /\ UNCHANGED clientSendPc
       ELSE /\ clientOut' = ClientLogPut(clientOut)
            /\ clientSendPc' = "ended"
            /\ UNCHANGED link
    /\ UNCHANGED <<conn, clientPc, clientStop, lastError, delayFor, clientConfig>>

\* _clientSendLoop: outgoingQueue.get returns a message and it is written
\* with sendall; a failed write is logged and ends the thread.
ClientSendWrite ==
    /\ clientSendPc = "run"
    /\ clientOut # <<>>
    /\ IF WriteOutcome = "ok"
       THEN /\ clientOut' = Tail(clientOut)
            /\ link' = LinkAfterWrite
            /\ UNCHANGED clientSendPc
       ELSE /\ clientOut' = ClientLogPut(Tail(clientOut))
            /\ clientSendPc' = "ended"
            /\ UNCHANGED link
    /\ UNCHANGED <<conn, clientPc, clientStop, lastError, delayFor, clientConfig>>

\* _clientSendLoop: get timed out with Empty and `while not
\* stopEvent.is_set()` finds the event set.
ClientSendExit ==
    /\ clientSendPc = "run"
    /\ clientStop
    /\ clientSendPc' = "ended"
    /\ UNCHANGED <<conn, link, clientPc, clientOut, clientStop, lastError,
                   delayFor, clientConfig>>

\* The environment of the peer transport: the hub closes its end of the
\* connection, the connection is reset, the owner of the transport puts an
\* envelope on the outgoing queue, the owner sets the stop event.
HubClose ==
    /\ link = "up"
    /\ link' = "closed"
    /\ UNCHANGED <<conn, clientPc, clientSendPc, clientOut, clientStop,
                   lastError, delayFor, clientConfig>>

HubReset ==
    /\ link = "up"
    /\ link' = "reset"
    /\ UNCHANGED <<conn, clientPc, clientSendPc, clientOut, clientStop,
                   lastError, delayFor, clientConfig>>

ClientPut(m) ==
    /\ ClientRoom(1)
    /\ ~clientStop
    /\ clientOut' = Append(clientOut, m)
    /\ UNCHANGED <<conn, link, clientPc, clientSendPc, clientStop, lastError,
                   delayFor, clientConfig>>

ClientSetStop ==
    /\ ~clientStop
    /\ clientStop' = TRUE
    /\ UNCHANGED <<conn, link, clientPc, clientSendPc, clientOut, lastError,
                   delayFor, clientConfig>>

\* ------------------------------------------------------------------------
\* SpecClient: one peer transport from run() on
\* ------------------------------------------------------------------------
InitClient ==
    /\ HubIdle
    /\ FramingIdle
    /\ conn = "None"
    /\ link = "none"
    /\ clientPc = "while"
    /\ clientSendPc = "none"
    /\ clientOut = <<>>
    /\ clientStop = FALSE
    /\ lastError = "none"
    /\ delayFor = 0
    /\ clientConfig \in ClientConfigs
    /\ StartIdle
    /\ OrderIdle
    /\ ModuleIdle
    /\ AppIdle

ClientStep ==
    \/ ClientWhile
    \/ \E o \in ConnectOutcomes : ClientConnect(o)
    \/ ClientIdentify
    \/ ClientReceiveEnd
    \/ ClientJoin
    \/ ClientDelayEnd
    \/ ClientSendWrite
    \/ ClientSendExit

NextClient ==
    \/ ClientWhile /\ UNCHANGED <<framingVars, moduleVars, appVars, hubVars, startVars, orderVars>>
    \/ \E o \in ConnectOutcomes : ClientConnect(o) /\ UNCHANGED <<framingVars, moduleVars, appVars, hubVars, startVars, orderVars>>
    \/ ClientIdentify /\ UNCHANGED <<framingVars, moduleVars, appVars, hubVars, startVars, orderVars>>
    \/ ClientReceiveEnd /\ UNCHANGED <<framingVars, moduleVars, appVars, hubVars, startVars, orderVars>>
    \/ ClientJoin /\ UNCHANGED <<framingVars, moduleVars, appVars, hubVars, startVars, orderVars>>
    \/ ClientDelayEnd /\ UNCHANGED <<framingVars, moduleVars, appVars, hubVars, startVars, orderVars>>
    \/ ClientSendWrite /\ UNCHANGED <<framingVars, moduleVars, appVars, hubVars, startVars, orderVars>>
    \/ ClientSendExit /\ UNCHANGED <<framingVars, moduleVars, appVars, hubVars, startVars, orderVars>>
    \/ HubClose /\ UNCHANGED <<framingVars, moduleVars, appVars, hubVars, startVars, orderVars>>
    \/ HubReset /\ UNCHANGED <<framingVars, moduleVars, appVars, hubVars, startVars, orderVars>>
    \/ ClientPut(Envelope(ClientName, "B", "data")) /\ UNCHANGED <<framingVars, moduleVars, appVars, hubVars, startVars, orderVars>>
    \/ ClientSetStop /\ UNCHANGED <<framingVars, moduleVars, appVars, hubVars, startVars, orderVars>>

SpecClient == InitClient /\ [][NextClient]_vars

\* Every thread of the peer transport keeps running: each blocking call of
\* the three loops has a timeout or returns by itself (connect, sendall,
\* recv with settimeout(1.0), get(timeout=1.0), sleep). Nothing is assumed
\* of the hub or of the owner of the transport.
SpecClientFair ==
    /\ SpecClient
    /\ WF_vars(ClientStep /\ UNCHANGED <<framingVars, moduleVars, appVars, hubVars, startVars, orderVars>>)

\* ------------------------------------------------------------------------
\* SpecOrder: one peer transport connected to the hub, end to end
\* ------------------------------------------------------------------------
\* Two envelopes of the peer for the same destination, in the order its
\* owner puts them on the outgoing queue.
FirstEnvelope == Envelope(ClientName, "Logger", "data")
SecondEnvelope == [FirstEnvelope EXCEPT !.payload = <<"second">>]
OrderEnvelopes == <<FirstEnvelope, SecondEnvelope>>

\* The hub connection the peer transport is on: the last one that
\* identified with its name.
ClientConn ==
    CHOOSE c \in Conns :
        /\ ident[c] = ClientName
        /\ peer[c] # "none"
        /\ \A d \in Conns : (ident[d] = ClientName /\ peer[d] # "none") => d <= c

\* The logger (connection 1) and the peer (connection 2) are connected and
\* bound, the peer's send thread and receive loop are running, and every
\* queue is empty.
InitOrder ==
    /\ client_sockets = <<[name |-> "Logger", conn |-> 1],
                          [name |-> ClientName, conn |-> 2]>>
    /\ incomingQueue = <<>>
    /\ outgoingQueue = <<>>
    /\ peer = [c \in Conns |-> IF c \in {1, 2} THEN "up" ELSE "none"]
    /\ ident = [c \in Conns |-> IF c = 1 THEN "Logger"
                                ELSE IF c = 2 THEN ClientName ELSE NoName]
    /\ hcon = [c \in Conns |-> IF c \in {1, 2} THEN "run" ELSE "none"]
    /\ acceptPc = "accept"
    /\ sendPc = "get"
    /\ cur = NoItem
    /\ todo = <<>>
    /\ stopEvent = FALSE
    /\ routerPc = "run"
    /\ termIdx = 1
    /\ proc = [p \in {runningProcesses[i] : i \in 1..Len(runningProcesses)} |-> "alive"]
    /\ snap = <<>>
    /\ endedAtGet = {}
    /\ sent = [c \in Conns |-> 0]
    /\ stopSeen = {}
    /\ stopEnqueued = FALSE
    /\ reconnOf = [c \in Conns |-> {}]
    /\ nInbound = 0
    /\ routed = <<>>
    /\ FramingIdle
    /\ StartIdle
    /\ OrderIdle
    /\ ModuleIdle
    /\ AppIdle
    /\ conn = "connected"
    /\ link = "up"
    /\ clientPc = "serve"
    /\ clientSendPc = "run"
    /\ clientOut = <<>>
    /\ clientStop = FALSE
    /\ lastError = "none"
    /\ delayFor = 0
    /\ clientConfig = <<>>

\* The owner of the transport puts its next envelope on the outgoing queue.
OrderPut ==
    /\ nInbound < Len(OrderEnvelopes)
    /\ ClientPut(OrderEnvelopes[nInbound + 1])
    /\ nInbound' = nInbound + 1
    /\ UNCHANGED <<incomingQueue, outgoingQueue, routed, tableVars, sendVars,
                   routerVars, acceptPc>>

\* The identification is written: the hub has a connection to accept.
OrderIdentify ==
    /\ ClientIdentify
    /\ IF link = "up"
       THEN \E c \in Conns : PeerConnect(c, ClientName)
       ELSE UNCHANGED hubVars

\* The send thread writes an envelope: it is in flight to the hub unless
\* the connection is gone.
OrderSendWrite ==
    /\ ClientSendWrite
    /\ wire' = IF link = "up"
               THEN [wire EXCEPT ![ClientConn] = Append(@, Head(clientOut))]
               ELSE wire

\* recv on connection c returns one encoded envelope of those in flight:
\* every decoded message is put on the incoming queue.
ServerHandleWire(c) ==
    /\ hcon[c] = "run"
    /\ peer[c] = "up"
    /\ wire[c] # <<>>
    /\ incomingQueue' = incomingQueue \o HandleData(<<>>, Encode(Head(wire[c]))).msgs
    /\ wire' = [wire EXCEPT ![c] = Tail(@)]
    /\ UNCHANGED <<outgoingQueue, nInbound, routed, tableVars, sendVars,
                   routerVars, acceptPc>>

\* The unicast branch of the dispatch loop, with the envelope recorded when
\* it is a peer's and is written to a connection whose peer is there.
OrderUnicast ==
    /\ SendLoopUnicast
    /\ unicasts' =
         IF /\ Has(client_sockets, cur.dest)
            /\ cur.msg.type # "LogMessage"
            /\ peer[UnicastTarget(client_sockets, cur.dest)] = "up"
         THEN Append(unicasts, cur.msg)
         ELSE unicasts

NextOrder ==
    \/ ClientWhile /\ UNCHANGED <<framingVars, moduleVars, appVars, hubVars, startVars, orderVars>>
    \/ ClientConnect("ok") /\ UNCHANGED <<framingVars, moduleVars, appVars, hubVars, startVars, orderVars>>
    \/ OrderIdentify /\ UNCHANGED <<framingVars, moduleVars, appVars, startVars, orderVars>>
    \/ ClientReceiveEnd /\ UNCHANGED <<framingVars, moduleVars, appVars, hubVars, startVars, orderVars>>
    \/ ClientJoin /\ UNCHANGED <<framingVars, moduleVars, appVars, hubVars, startVars, orderVars>>
    \/ OrderSendWrite /\ UNCHANGED <<framingVars, moduleVars, appVars, hubVars, startVars, unicasts>>
    \/ HubReset /\ UNCHANGED <<framingVars, moduleVars, appVars, hubVars, startVars, orderVars>>
    \/ OrderPut /\ UNCHANGED <<framingVars, moduleVars, appVars, startVars, orderVars>>
    \/ AcceptConn /\ UNCHANGED <<framingVars, extVars>>
    \/ \E c \in Conns : ServerHandleWire(c) /\ UNCHANGED <<framingVars, moduleVars, appVars, clientVars, startVars, unicasts>>
    \/ Route /\ UNCHANGED <<framingVars, extVars>>
    \/ SendLoopGet /\ UNCHANGED <<framingVars, extVars>>
    \/ OrderUnicast /\ UNCHANGED <<framingVars, moduleVars, appVars, clientVars, startVars, wire>>
    \/ SendLoopDone /\ UNCHANGED <<framingVars, extVars>>

SpecOrder == InitOrder /\ [][NextOrder]_vars

\* ------------------------------------------------------------------------
\* Claims about framing (checked under SpecFraming)
\* ------------------------------------------------------------------------
\* The envelope a valid unit encodes.
EnvOf(u) == CHOOSE m \in FramingEnvelopes : Encode(m) = u

\* The envelopes of the decodable units of a sequence of units, in order.
RECURSIVE DecodableOf(_)
DecodableOf(us) ==
    IF us = <<>> THEN <<>>
    ELSE (IF Head(us) \in ValidUnits THEN <<EnvOf(Head(us))>> ELSE <<>>)
         \o DecodableOf(Tail(us))

ValidOnly == \A i \in 1..Len(units) : units[i] \in ValidUnits

\* Number of units whose delimiter has been read.
UnitsRead == NLCount(Concat(units)) - NLCount(stream)

\* C8: a stream of valid encoded envelopes, read in arbitrary chunks, puts
\* exactly the original envelopes on the incoming queue, in order: after any
\* number of reads the queue holds the envelopes of the units whose newline
\* has been read, no error is logged, and once the stream is consumed the
\* queue is the original sequence and the buffer is empty.
C8_FramingRoundTrip ==
    ValidOnly =>
        /\ rxPc = "run"
        /\ rxErrs = 0
        /\ rxQueue = SubSeq(DecodableOf(units), 1, UnitsRead)
        /\ (stream = <<>> => (rxQueue = DecodableOf(units) /\ buffer = <<>>))

\* C8 witness: three valid envelopes fully read, with a read ending in the
\* middle of a unit, one right before a newline, one right after a newline
\* and one holding several units.
C8_Witness ==
    /\ ValidOnly
    /\ Len(units) = MaxUnits
    /\ stream = <<>>
    /\ {"mid", "beforeNL", "afterNL", "many"} \subseteq cuts
    /\ rxQueue = DecodableOf(units)

\* C9: a unit that cannot be decoded is discarded alone: the receive loop
\* stays alive, and once the stream is consumed the queue holds every valid
\* unit of the stream, in order.
C9_UndecodableUnitDiscarded ==
    /\ rxPc = "run"
    /\ (stream = <<>> => rxQueue = DecodableOf(units))

\* ------------------------------------------------------------------------
\* Claims about dispatch and the connection table (checked under Spec)
\* ------------------------------------------------------------------------
\* The dispatch loop is handling a broadcast / a unicast whose destination
\* was a key of the table at the membership test / a work item whose
\* destination was not found.
InBroadcast == cur # NoItem /\ cur.dest = "All"
InUnicast == cur # NoItem /\ cur.dest # "All" /\ Has(snap, cur.dest)
InNotFound == cur # NoItem /\ cur.dest # "All" /\ ~Has(snap, cur.dest)

\* Number of entries of the broadcast's snapshot visited so far.
Visited == Len(snap) - Len(todo)

C2_UnicastExactlyOnce ==
    (InUnicast /\ sendPc \in {"done", "dead"}) =>
        \E c \in Conns :
            /\ ident[c] = cur.dest
            /\ sent[c] = 1
            /\ \A d \in Conns \ {c} : sent[d] = 0

\* C3: when the dispatch loop takes a work item whose destination is neither
\* "All" nor a key of the table, nothing is written to any connection,
\* exactly one diagnostic entry naming that destination is put on the
\* outgoing queue, and both the dispatch loop and the router keep running.
C3_UnknownDestination ==
    [][ (sendPc = "get" /\ cur' # NoItem /\ cur'.dest # "All"
            /\ ~Has(client_sockets, cur'.dest))
        => /\ \A c \in Conns : sent'[c] = 0
           /\ outgoingQueue' = Append(Tail(outgoingQueue), Log(cur'.dest))
           /\ sendPc' = "done"
           /\ routerPc' = routerPc
           /\ hcon' = hcon
           /\ client_sockets' = client_sockets ]_vars

\* C3 witness: an envelope of peer A for the unknown name "Z" was taken by
\* the dispatch loop while Logger and A were connected: nothing was written
\* and the diagnostic is the newest entry of the outgoing queue.
C3_Witness ==
    /\ InNotFound
    /\ sendPc = "done"
    /\ cur.dest = "Z"
    /\ Has(snap, "Logger")
    /\ \A c \in Conns : sent[c] = 0
    /\ outgoingQueue # <<>>
    /\ outgoingQueue[Len(outgoingQueue)] = Log("Z")
    /\ Len(SelectSeq(outgoingQueue, LAMBDA i : i = Log("Z"))) = 1
    /\ routerPc = "run"

\* C4: once the receive loop of a connection has observed it closed, no
\* entry of the table holds that connection, and a broadcast taken by the
\* dispatch loop afterwards is written only to connections of the table as
\* it was then, never to the closed one.
C4_DisconnectCleanup ==
    \A c \in Conns :
        hcon[c] = "ended" =>
            /\ c \notin ConnsOf(client_sockets)
            /\ (InBroadcast /\ c \in endedAtGet) =>
                   /\ sent[c] = 0
                   /\ c \notin ConnsOf(snap)
                   /\ \A d \in Conns : sent[d] > 0 => d \in ConnsOf(snap)

\* C4 witness: B's connection was observed closed, then a broadcast of A was
\* dispatched: it went to Logger, not to B.
C4_Witness ==
    \E c \in Conns :
        /\ ident[c] = "B"
        /\ hcon[c] = "ended"
        /\ c \in endedAtGet
        /\ InBroadcast
        /\ sendPc = "done"
        /\ cur.msg.Sender = "A"
        /\ sent[c] = 0
        /\ Has(snap, "Logger")
        /\ sent[Lookup(snap, "Logger")] = 1

\* C5: when a peer whose connection dropped has reconnected under the same
\* name and been accepted, and the receive loop of the old connection has
\* ended, the table binds the name to the new connection (the new
\* connection being up and its receive loop running).
C5_ReconnectBindsNew ==
    \A c \in Conns : \A old \in reconnOf[c] :
        (/\ hcon[c] = "run"
         /\ peer[c] = "up"
         /\ hcon[old] = "ended")
        => /\ Has(client_sockets, ident[c])
           /\ Lookup(client_sockets, ident[c]) = c

\* C10: one call of route() on an envelope whose Destination is not the
\* router's name puts exactly one work item (Destination, envelope) on the
\* outgoing queue, whatever the type of the message.
C10_RouteForwardsEveryType ==
    [][ (incomingQueue # <<>> /\ incomingQueue' = Tail(incomingQueue)
            /\ Head(incomingQueue).Destination # RouterName)
        => LET m == Head(incomingQueue)
               added == SubSeq(outgoingQueue', Len(outgoingQueue) + 1,
                               Len(outgoingQueue'))
           IN /\ SubSeq(outgoingQueue', 1, Len(outgoingQueue)) = outgoingQueue
              /\ Len(SelectSeq(added,
                     LAMBDA w : w = [dest |-> m.Destination, msg |-> m])) = 1
       ]_vars

\* ------------------------------------------------------------------------
\* Claims about shutdown (checked under SpecShutdown)
\* ------------------------------------------------------------------------
\* A process record has been terminated by _cleanup.
SomeTerminated == \E p \in DOMAIN proc : proc[p] = "terminated"

\* C6: when a supervised process is forcibly terminated, the Stop broadcast
\* has been written to every connected peer of the table.
C6_StopWrittenBeforeTerminate ==
    SomeTerminated =>
        \A c \in ConnsOf(client_sockets) : peer[c] = "up" => c \in stopSeen

\* C7: when a supervised process is forcibly terminated, the Stop broadcast
\* work item has already been put on the outgoing queue.
C7_StopEnqueuedBeforeTerminate ==
    SomeTerminated =>
        /\ stopEnqueued
        /\ \/ \E i \in 1..Len(outgoingQueue) : outgoingQueue[i] = StopItem
           \/ cur = StopItem
           \/ stopSeen # {}

\* C7 witness: the first process record has just been terminated, the
\* second is still alive, and the Stop broadcast is on the outgoing queue.
C7_Witness ==
    /\ proc["A"] = "terminated"
    /\ proc["B"] = "alive"
    /\ routerPc = "terminate"
    /\ stopEnqueued
    /\ \E i \in 1..Len(outgoingQueue) : outgoingQueue[i] = StopItem

\* ------------------------------------------------------------------------
\* Claims about the router (checked under SpecRouter and SpecRouterFair)
\* ------------------------------------------------------------------------
\* The work item the dispatch loop is handling, or waiting on the queue.
WorkItems ==
    { outgoingQueue[i] : i \in 1..Len(outgoingQueue) }
    \cup (IF cur = NoItem THEN {} ELSE {cur})

\* The items route() has taken that are envelopes addressed to the router.
RoutedToRouter ==
    { i \in 1..Len(routed) :
        routed[i] # NonDictItem /\ routed[i].Destination = RouterName }

\* C11: an envelope addressed to the router, whatever its type, is never
\* put on the outgoing queue as a work item and never handled (so never
\* written to a connection) by the dispatch loop: every work item carries a
\* message whose Destination is not the router's name, and none carries a
\* routed envelope that was addressed to the router.
C11_RouterAddressedNeverForwarded ==
    \A w \in WorkItems :
        /\ w.dest # RouterName
        /\ w.msg.Destination # RouterName
        /\ \A i \in RoutedToRouter : w.msg # routed[i]

\* C11 witness: an unregister and a Stop addressed to the router have been
\* routed and the shutdown has gone through _cleanup.
C11_Witness ==
    /\ routed = <<Envelope("A", RouterName, "unregister"),
                  Envelope("A", RouterName, "Stop")>>
    /\ RoutedToRouter = {1, 2}
    /\ routerPc = "join"
    /\ outgoingQueue # <<>>

\* C12: routing a Stop envelope addressed to the router sets the stop
\* event; once set the event stays set and route() takes no further item;
\* and the run loop then goes through _cleanup.
C12_StopSetsFlag ==
    /\ [][ (incomingQueue # <<>> /\ routed' # routed
              /\ Head(incomingQueue) = Envelope("A", RouterName, "Stop"))
           => stopEvent' ]_vars
    /\ [][ stopEvent => (stopEvent' /\ routed' = routed) ]_vars
    /\ (stopEvent ~> (stopEnqueued /\ routerPc = "join"))

\* C12 witness: a Stop addressed to the router was the last item routed,
\* an item is still on the incoming queue, and _cleanup has run.
C12_Witness ==
    /\ Len(routed) = 1
    /\ routed[1] = Envelope("A", RouterName, "Stop")
    /\ incomingQueue # <<>>
    /\ stopEvent
    /\ stopEnqueued
    /\ routerPc = "join"

\* The items the Route step under way appends to the outgoing queue.
Added ==
    SubSeq(outgoingQueue', Len(outgoingQueue) + 1, Len(outgoingQueue'))

\* The step is route() taking the item m off the incoming queue.
RouteStepOn(m) ==
    /\ incomingQueue # <<>>
    /\ Head(incomingQueue) = m
    /\ routed' = Append(routed, m)

\* C13: once a register message of a sender addressed to the router has
\* been routed (once or twice), the registry holds an entry for that sender
\* and the router is still running.
C13_RegisterCreatesOneEntry ==
    \A i \in RoutedToRouter :
        routed[i].type = "register" =>
            /\ routed[i].Sender \in registered_modules
            /\ routerPc = "run"

RoutedMalformed ==
    { i \in 1..Len(routed) :
        \/ routed[i] = NonDictItem
        \/ routed[i].Sender = NoneValue
        \/ routed[i].Destination = NoneValue }

\* C15: an inbound item that lacks a Sender or a Destination is dropped by
\* the router: no work item carries it, and the router keeps running unless
\* a shutdown was asked for.
C15_MalformedDropped ==
    /\ \A i \in RoutedMalformed : \A w \in WorkItems : w.msg # routed[i]
    /\ (RoutedMalformed # {} /\ ~stopEvent) => routerPc = "run"

\* C16: routing an envelope whose Destination is the empty string leaves
\* the outgoing queue (log entries set aside) and the connection table as
\* they were.
C16_EmptyDestinationDropped ==
    [][ RouteStepOn(Envelope("A", NoName, "data")) =>
          /\ \A k \in 1..Len(Added) : Added[k].dest = "Logger"
          /\ outgoingQueue' = outgoingQueue \o Added
          /\ client_sockets' = client_sockets ]_vars

\* ------------------------------------------------------------------------
\* Claims about identification (checked under SpecAccept)
\* ------------------------------------------------------------------------
\* The accept loop has read the first message of connection 1.
Accepted == hcon[1] # "none"

\* C17: a new connection whose first message is the identification of a
\* named peer is bound to that name in the table and has a running receive
\* loop, wherever the accept loop's read ends.
C17_IdentifiedIsBound ==
    (Accepted /\ units[1] = IdentUnit("A")) =>
        /\ Has(client_sockets, "A")
        /\ Lookup(client_sockets, "A") = 1
        /\ hcon[1] = "run"
        /\ rxPc = "run"

\* C18: a new connection whose first message names no peer (read whole and
\* alone by the accept loop) is closed, is not in the table, and nothing it
\* sent is on the incoming queue.
C18_UnidentifiedIsClosed ==
    (Accepted /\ units[1] # IdentUnit("A") /\ "identAlone" \in cuts) =>
        /\ hcon[1] = "closed"
        /\ 1 \notin ConnsOf(client_sockets)
        /\ rxQueue = <<>>

\* ------------------------------------------------------------------------
\* Claims about failed writes and the table invariant (checked under Spec)
\* ------------------------------------------------------------------------
\* The step is the broadcast loop visiting an entry whose write fails (the
\* only broadcast step that logs).
BroadcastWriteFails ==
    /\ sendPc = "bcast"
    /\ todo # <<>>
    /\ todo' = Tail(todo)
    /\ Len(outgoingQueue') > Len(outgoingQueue)

\* C19: when the write of a broadcast to one connection fails, the loop
\* goes on with the remaining entries, and the table loses the entry of the
\* connection that failed and no entry of any other connection.
C19_FailedWriteRemovesOnlyFailing ==
    [][ BroadcastWriteFails =>
          /\ sendPc' \in {"bcast", "done"}
          /\ ConnsOf(client_sockets') =
                ConnsOf(client_sockets) \ {Head(todo).conn} ]_vars

\* The connections identified as n that the hub holds with a running
\* receive loop, and those among them whose peer is still there.
HeldAs(n) == { c \in Conns : hcon[c] = "run" /\ ident[c] = n }
OpenAs(n) == { c \in HeldAs(n) : peer[c] = "up" }

\* C20: while the hub runs, every entry of the table is bound to a
\* connection that identified with the entry's name and whose receive loop
\* is running, and every identified connection that is open at both ends
\* is the one its name is bound to, also when two connections identified
\* with the same name.
C20_TableMatchesOpenConnections ==
    ~stopEvent =>
        /\ \A i \in 1..Len(client_sockets) :
             client_sockets[i].conn \in HeldAs(client_sockets[i].name)
        /\ \A n \in PeerNames : \A c \in OpenAs(n) :
             /\ Has(client_sockets, n)
             /\ Lookup(client_sockets, n) = c

\* ------------------------------------------------------------------------
\* Claims about exclusive access to the connection table (checked under Spec)
\* ------------------------------------------------------------------------
\* C21: between the dispatch loop's membership test for a destination and
\* its lookup of that destination's connection, the connection table is the
\* table the test was made on: no insertion by the accept loop and no
\* removal by a receive loop takes effect in between.
C21_TableStableDuringLookup ==
    sendPc = "lookup" => client_sockets = snap

\* ------------------------------------------------------------------------
\* Claims about the peer's connect-and-serve loop (checked under
\* SpecClientFair)
\* ------------------------------------------------------------------------
\* The step is a connection attempt that fails with e.
ConnectFails(e) ==
    /\ clientPc = "connect"
    /\ clientPc' \notin {"connect", "identify"}
    /\ lastError' = e

\* C22: a connection attempt that fails with connection refused or timeout
\* while the stop event is not set is followed by one sleep of the
\* configured reconnect delay (3 seconds when none is configured) and then,
\* with no second sleep, by the next attempt; so the loop retries until an
\* attempt succeeds or the stop event is set.
C22_RetryAfterDelay ==
    /\ [][ \A e \in {"refused", "timeout"} : ConnectFails(e) =>
             /\ clientPc' = "delay"
             /\ delayFor' = IF clientConfig = <<>>
                            THEN DefaultReconnectDelay ELSE clientConfig[1] ]_vars
    /\ [][ clientPc = "delay" =>
             /\ clientPc' \in {"delay", "while"}
             /\ clientPc' = "while" => delayFor' = 0 ]_vars
    /\ [][ (clientPc = "while" /\ ~clientStop) =>
             clientPc' \in {"while", "connect"} ]_vars
    /\ (clientPc = "delay" /\ ~clientStop) ~> (clientPc = "connect" \/ clientStop)

C22_Witness ==
    /\ clientPc = "connect"
    /\ lastError = "timeout"
    /\ clientOut = <<ClientLog>>
    /\ clientConfig = <<1>>
    /\ ~clientStop

\* The session has ended by disconnection: the receive loop has returned
\* because the hub's end is gone, and the stop event is not set.
SessionEnded ==
    /\ clientPc = "join"
    /\ link \in {"closed", "reset"}
    /\ ~clientStop

\* C23: after an established connection ends while the stop event is not
\* set, the connect-and-serve loop eventually attempts a new connection
\* (or the stop event is set), whether or not the owner of the transport
\* puts anything more on the outgoing queue.
C23_ReconnectAfterSessionEnds ==
    SessionEnded ~> (clientPc = "connect" \/ clientStop)

\* C24: while the stop event is not set, the connect-and-serve loop has not
\* ended: no error raised by connect, by the sendall of the identification
\* or while serving takes it out of its loop.
C24_TransportErrorNeverEndsLoop ==
    ~clientStop => clientPc \notin {"dead", "exited"}

\* ------------------------------------------------------------------------
\* Claims about hub startup and loop termination (checked under SpecStartup
\* and SpecStartupFair)
\* ------------------------------------------------------------------------
\* C25: when the hub cannot bind its listening address, startup is aborted:
\* run() does not go on to the accept loop, and the dispatch loop is not
\* started.
C25_BindFailureAbortsStartup ==
    server_socket = "unbound" =>
        /\ acceptPc \notin {"accept", "identify", "exited"}
        /\ sendPc = "none"

\* No loop of the hub transport is running any more.
HubLoopsExited ==
    /\ acceptPc = "exited"
    /\ sendPc \in {"none", "exited", "dead"}
    /\ \A c \in Conns : hcon[c] # "run"

\* No loop of the peer transport is running any more.
ClientLoopsExited ==
    /\ clientPc \in {"exited", "dead"}
    /\ clientSendPc \in {"none", "ended"}

\* C26: once the stop event is set, the accept loop, the dispatch loop and
\* every receive loop of the hub transport end, and so do the
\* connect-and-serve loop, the receive loop and the send loop of a peer
\* transport, whatever the connected peers do or fail to do.
C26_StopEndsEveryLoop ==
    /\ stopEvent ~> HubLoopsExited
    /\ clientStop ~> ClientLoopsExited

\* ------------------------------------------------------------------------
\* Claims about ordering (checked under SpecOrder)
\* ------------------------------------------------------------------------
\* C27: two unicast envelopes of one sender for one destination are
\* delivered in the order the sender put them on its outgoing queue, also
\* when the sender's connection was dropped and re-established between the
\* two: the second is never delivered before the first.
C27_UnicastOrderPreserved ==
    \A i, j \in 1..Len(unicasts) :
        (unicasts[i] = FirstEnvelope /\ unicasts[j] = SecondEnvelope) => i < j

\* ------------------------------------------------------------------------
\* Unit runtime (module.py)
\* ------------------------------------------------------------------------
\* Frames the server sends in one run, and send_message calls made in one.
MaxFrames == 3
MaxSend == 2

\* self.name of the unit.
ModuleName == "B"

RunPcStates ==
    {"init", "wait", "check", "on_start", "main_loop", "on_stop", "join", "done"}

CommPcStates ==
    {"none", "connect", "register", "recv", "handle", "closing", "exited", "crashed"}

\* json.dumps(message): the text of one websocket frame, no delimiter.
WsText(m) == <<"{", m.Sender, m.Destination, m.type, m.payload, "}">>

\* json.dumps(reg_message): the registration has no payload key.
RegisterText == <<"{", ModuleName, RouterName, "register", "}">>

\* A frame whose text is valid JSON but not an object.
NonDictText == <<"5">>

\* json.loads(message_str) returns an object.
WsValid(u) ==
    /\ Len(u) = 6
    /\ u[1] = "{"
    /\ u[6] = "}"
    /\ u[2] \in PeerNames \cup {RouterName}
    /\ u[3] \in Destinations
    /\ u[4] \in MsgTypes
    /\ u[5] \in Payloads

WsLoads(u) ==
    [Sender |-> u[2], Destination |-> u[3], type |-> u[4], payload |-> u[5]]

\* json.loads(message_str) returns at all, instead of raising JSONDecodeError.
WsIsJson(u) == WsValid(u) \/ u = NonDictText

\* A mutant of the test: no message is taken for the stop signal.
IsStopNever(m) == FALSE

\* message.get("Message", {}).get("type") == "Stop"
IsStop(m) == m.type = "Stop"

\* The frames a server sends: the stop broadcast, two application messages,
\* a text cut short, and a JSON text that is not an object.
StopFrame == WsText(Envelope(RouterName, "All", "Stop"))
DataFrame == WsText(Envelope("A", ModuleName, "data"))
SecondFrame == WsText([Envelope("A", ModuleName, "data") EXCEPT !.payload = <<"second">>])
TruncatedFrame == SubSeq(DataFrame, 1, 3)

FrameTexts == {StopFrame, DataFrame, SecondFrame, TruncatedFrame, NonDictText}

FrameSeqs == UNION {[1..n -> FrameTexts] : n \in 0..MaxFrames}

\* Module.__init__, with the frames the server will send.
InitModule ==
    /\ HubIdle
    /\ FramingIdle
    /\ ClientIdle
    /\ StartIdle
    /\ OrderIdle
    /\ AppIdle
    /\ websocket = "None"
    /\ stop_event = FALSE
    /\ runPc = "init"
    /\ commPc = "none"
    /\ frames \in FrameSeqs
    /\ rxIdx = 0
    /\ handled = <<>>
    /\ hooks = <<>>
    /\ joined = FALSE
    /\ wsSent = <<>>
    /\ calls = <<>>

\* run(): the communicator thread is created and started.
ModuleRun ==
    /\ runPc = "init"
    /\ runPc' = "wait"
    /\ commPc' = "connect"
    /\ UNCHANGED <<websocket, stop_event, frames, rxIdx, handled, hooks, joined,
                   wsSent, calls>>

\* run(): while not self.websocket and not self.stop_event.is_set() ends.
ModuleWaitEnd ==
    /\ runPc = "wait"
    /\ websocket # "None" \/ stop_event
    /\ runPc' = "check"
    /\ UNCHANGED <<websocket, stop_event, commPc, frames, rxIdx, handled, hooks,
                   joined, wsSent, calls>>

\* run(): if self.websocket: on_start() ...; otherwise straight to on_stop().
ModuleCheck ==
    /\ runPc = "check"
    /\ IF websocket # "None"
       THEN /\ runPc' = "on_start"
            /\ hooks' = Append(hooks, "on_start")
       ELSE /\ runPc' = "on_stop"
            /\ hooks' = Append(hooks, "on_stop")
    /\ UNCHANGED <<websocket, stop_event, commPc, frames, rxIdx, handled, joined,
                   wsSent, calls>>

\* run(): on_start() returns and main_loop() is called.
ModuleOnStartReturn ==
    /\ runPc = "on_start"
    /\ runPc' = "main_loop"
    /\ hooks' = Append(hooks, "main_loop")
    /\ UNCHANGED <<websocket, stop_event, commPc, frames, rxIdx, handled, joined,
                   wsSent, calls>>

\* main_loop(): self.stop_event.wait() returns; run() calls on_stop().
ModuleMainLoopReturn ==
    /\ runPc = "main_loop"
    /\ stop_event
    /\ runPc' = "on_stop"
    /\ hooks' = Append(hooks, "on_stop")
    /\ UNCHANGED <<websocket, stop_event, commPc, frames, rxIdx, handled, joined,
                   wsSent, calls>>

\* run(): on_stop() returns.
ModuleOnStopReturn ==
    /\ runPc = "on_stop"
    /\ runPc' = "join"
    /\ UNCHANGED <<websocket, stop_event, commPc, frames, rxIdx, handled, hooks,
                   joined, wsSent, calls>>

\* run(): self.communicator_thread.join() returns once the thread has ended.
ModuleJoin ==
    /\ runPc = "join"
    /\ commPc \in {"exited", "crashed"}
    /\ runPc' = "done"
    /\ joined' = TRUE
    /\ UNCHANGED <<websocket, stop_event, commPc, frames, rxIdx, handled, hooks,
                   wsSent, calls>>

\* What websockets.connect does: it connects, the connection is refused, or
\* it raises something else (a timeout, an unreachable host, a failed
\* handshake).
WsConnectOutcomes == {"ok", "refused", "error"}

\* communicator_client: async with websockets.connect(...) as websocket.
\* Only ConnectionClosed and ConnectionRefusedError are caught; any other
\* exception ends the thread with websocket and stop_event as they were.
CommConnect(o) ==
    /\ commPc = "connect"
    /\ \/ /\ o = "ok"
          /\ websocket' = "open"
          /\ commPc' = "register"
          /\ UNCHANGED stop_event
       \/ /\ o = "refused"
          /\ websocket' = "None"
          /\ stop_event' = TRUE
          /\ commPc' = "exited"
       \/ /\ o = "error"
          /\ commPc' = "crashed"
          /\ UNCHANGED <<websocket, stop_event>>
    /\ UNCHANGED <<runPc, frames, rxIdx, handled, hooks, joined, wsSent, calls>>

\* register(): the registration is sent to the server.
CommRegister ==
    /\ commPc = "register"
    /\ wsSent' = Append(wsSent, RegisterText)
    /\ commPc' = "recv"
    /\ UNCHANGED <<websocket, stop_event, runPc, frames, rxIdx, handled, hooks,
                   joined, calls>>

\* One pass of the receive loop in which websocket.recv() returns a frame:
\* a text that is not JSON is reported and skipped, a JSON text that is not
\* an object raises AttributeError out of the thread, a Stop sets the stop
\* event and leaves the loop, anything else goes to handle_message.
CommRecv ==
    /\ commPc = "recv"
    /\ ~stop_event
    /\ rxIdx < Len(frames)
    /\ rxIdx' = rxIdx + 1
    /\ LET u == frames[rxIdx + 1] IN
       IF ~WsIsJson(u)
       THEN UNCHANGED <<websocket, stop_event, commPc, handled>>
       ELSE IF u = NonDictText
       THEN /\ commPc' = "crashed"
            /\ websocket' = "closed"
            /\ UNCHANGED <<stop_event, handled>>
       ELSE IF IsStop(WsLoads(u))
       THEN /\ stop_event' = TRUE
            /\ commPc' = "closing"
            /\ UNCHANGED <<websocket, handled>>
       ELSE /\ handled' = Append(handled, WsLoads(u))
            /\ commPc' = "handle"
            /\ UNCHANGED <<websocket, stop_event>>
    /\ UNCHANGED <<runPc, frames, hooks, joined, wsSent, calls>>

\* handle_message returns and the loop goes round.
CommHandleReturn ==
    /\ commPc = "handle"
    /\ commPc' = "recv"
    /\ UNCHANGED <<websocket, stop_event, runPc, frames, rxIdx, handled, hooks,
                   joined, wsSent, calls>>

\* The loop has been left: the async with block closes the connection;
\* self.websocket keeps the closed object.
CommClose ==
    /\ commPc = "closing"
    /\ websocket' = "closed"
    /\ commPc' = "exited"
    /\ UNCHANGED <<stop_event, runPc, frames, rxIdx, handled, hooks, joined,
                   wsSent, calls>>

\* The connection is lost while the thread awaits on it: ConnectionClosed
\* is caught, self.websocket = None and the stop event is set.
CommClosed ==
    /\ commPc \in {"register", "recv"}
    /\ websocket' = "None"
    /\ stop_event' = TRUE
    /\ commPc' = "exited"
    /\ UNCHANGED <<runPc, frames, rxIdx, handled, hooks, joined, wsSent, calls>>

\* The payload argument left out (None), and the arguments of the calls.
NoPayloadArg == <<NoneValue>>
SendPayloads == {NoPayloadArg, <<"second">>}
SendDestinations == {"Logger", "All"}

\* payload if payload is not None else {}
PayloadOrDefault(p) == IF p = NoPayloadArg THEN NoPayload ELSE p

\* The message send_message builds.
SendEnvelope(d, t, p) ==
    [Sender |-> ModuleName, Destination |-> d, type |-> t,
     payload |-> PayloadOrDefault(p)]

\* What a call to send_message comes to: without a websocket it prints and
\* returns; asyncio.get_running_loop() raises RuntimeError in a thread that
\* runs no event loop (run()'s thread, where the hooks on_start, main_loop
\* and on_stop run); in the communicator thread the send is scheduled.
SendOutcome(thread) ==
    IF websocket = "None" THEN "dropped"
    ELSE IF thread = "main" THEN "raised"
    ELSE "sent"

\* send_message(destination, msg_type, payload), called from a hook: from
\* handle_message in the communicator thread, from the others in run()'s.
ModuleSendMessage(thread, d, t, p) ==
    /\ Len(calls) < MaxSend
    /\ \/ thread = "main" /\ runPc \in {"on_start", "main_loop", "on_stop"}
       \/ thread = "comm" /\ commPc = "handle"
    /\ calls' = Append(calls, [thread |-> thread, destination |-> d, msg_type |-> t,
                               payload |-> p, outcome |-> SendOutcome(thread)])
    /\ wsSent' = IF SendOutcome(thread) = "sent"
                 THEN Append(wsSent, WsText(SendEnvelope(d, t, p)))
                 ELSE wsSent
    /\ UNCHANGED <<websocket, stop_event, runPc, commPc, frames, rxIdx, handled,
                   hooks, joined>>

NextModule ==
    \/ ModuleRun /\ UNCHANGED <<framingVars, hubVars, clientVars, startVars, orderVars, appVars>>
    \/ ModuleWaitEnd /\ UNCHANGED <<framingVars, hubVars, clientVars, startVars, orderVars, appVars>>
    \/ ModuleCheck /\ UNCHANGED <<framingVars, hubVars, clientVars, startVars, orderVars, appVars>>
    \/ ModuleOnStartReturn /\ UNCHANGED <<framingVars, hubVars, clientVars, startVars, orderVars, appVars>>
    \/ ModuleMainLoopReturn /\ UNCHANGED <<framingVars, hubVars, clientVars, startVars, orderVars, appVars>>
    \/ ModuleOnStopReturn /\ UNCHANGED <<framingVars, hubVars, clientVars, startVars, orderVars, appVars>>
    \/ ModuleJoin /\ UNCHANGED <<framingVars, hubVars, clientVars, startVars, orderVars, appVars>>
    \/ \E o \in WsConnectOutcomes : CommConnect(o) /\ UNCHANGED <<framingVars, hubVars, clientVars, startVars, orderVars, appVars>>
    \/ CommRegister /\ UNCHANGED <<framingVars, hubVars, clientVars, startVars, orderVars, appVars>>
    \/ CommRecv /\ UNCHANGED <<framingVars, hubVars, clientVars, startVars, orderVars, appVars>>
    \/ CommHandleReturn /\ UNCHANGED <<framingVars, hubVars, clientVars, startVars, orderVars, appVars>>
    \/ CommClose /\ UNCHANGED <<framingVars, hubVars, clientVars, startVars, orderVars, appVars>>
    \/ CommClosed /\ UNCHANGED <<framingVars, hubVars, clientVars, startVars, orderVars, appVars>>
    \/ \E th \in {"main", "comm"}, d \in SendDestinations, p \in SendPayloads :
          ModuleSendMessage(th, d, "data", p) /\ UNCHANGED <<framingVars, hubVars, clientVars, startVars, orderVars, appVars>>

SpecModule == InitModule /\ [][NextModule]_vars

\* The frames received so far that decode to a message.
RECURSIVE Decoded(_)
Decoded(us) ==
    IF us = <<>> THEN <<>>
    ELSE IF WsValid(Head(us)) THEN <<WsLoads(Head(us))>> \o Decoded(Tail(us))
    ELSE Decoded(Tail(us))

StopReceived == rxIdx > 0 /\ frames[rxIdx] = StopFrame

\* C28: an inbound message of type Stop is never passed to handle_message
\* and ends the processing (the stop event is set and no frame is received
\* after it); the messages received before it that are not Stop, and only
\* they, are passed to handle_message once each, in the order of arrival.
C28_StopEndsHandling ==
    /\ \A i \in 1..Len(handled) : handled[i].type # "Stop"
    /\ \A i \in 1..(rxIdx - 1) : frames[i] # StopFrame
    /\ StopReceived => stop_event /\ commPc \in {"closing", "exited"}
    /\ StopReceived => handled = Decoded(SubSeq(frames, 1, rxIdx - 1))
    /\ ~StopReceived => handled = Decoded(SubSeq(frames, 1, rxIdx))

C28_Witness ==
    /\ frames = <<DataFrame, SecondFrame, StopFrame>>
    /\ rxIdx = 3
    /\ handled = <<WsLoads(DataFrame), WsLoads(SecondFrame)>>
    /\ stop_event
    /\ commPc = "exited"

\* The hooks of a run, in the order run() is to invoke them.
HookOrder == <<"on_start", "main_loop", "on_stop">>

\* C29: in every run the hooks are invoked in the order start hook, main
\* loop, stop hook: what has been invoked so far is a prefix of that order
\* (so the stop hook comes after the main loop has returned), the stop hook
\* has run exactly once when the thread is about to be joined, and the
\* thread is not joined before it.
C29_HooksInOrder ==
    /\ Len(hooks) <= Len(HookOrder)
    /\ hooks = SubSeq(HookOrder, 1, Len(hooks))
    /\ runPc \in {"join", "done"} => hooks = HookOrder
    /\ joined => hooks = HookOrder

\* The envelopes send_message has handed to the websocket: everything sent
\* on it but the registration.
Handed == SelectSeq(wsSent, LAMBDA u : Len(u) = Len(WsText(Envelope("A", "B", "data"))))

\* C30: every call send_message(destination, msg_type, payload) hands
\* exactly one envelope to the transport, with Sender the unit's own name,
\* the given Destination and type, and the given payload or an empty map;
\* no call is left without its envelope.
C30_EveryCallHandsOneEnvelope ==
    /\ Len(Handed) = Len(calls)
    /\ \A i \in 1..Len(calls) :
          /\ calls[i].outcome = "sent"
          /\ i <= Len(Handed) =>
                Handed[i] = <<"{", ModuleName, calls[i].destination, calls[i].msg_type,
                              IF calls[i].payload = NoPayloadArg
                              THEN NoPayload ELSE calls[i].payload, "}">>

\* ------------------------------------------------------------------------
\* Claims about the loop over the process records (SpecShutdown)
\* ------------------------------------------------------------------------
\* The process records _cleanup's loop has examined so far.
Examined == {runningProcesses[i] : i \in 1..(termIdx - 1)}

C32_OneConnectionOneSendLoop ==
    /\ [](clientSendPc = "run" => clientPc \in {"serve", "join"})
    /\ [](link = "up" => conn = "connected" /\ clientPc \in {"identify", "serve", "join", "while"})
    /\ [](clientPc \in {"delay", "dead", "exited"} => conn = "None")
    /\ [][(clientPc = "identify" /\ clientPc' = "serve") => clientSendPc # "run"]_vars
    /\ [][(conn' = "socket" /\ conn = "connected") => link \in {"closed", "reset"}]_vars

\* C32 witness: after a connection attempt that timed out, the transport is
\* in a session with its connection open and its send loop running.
C32_Witness ==
    /\ lastError = "timeout"
    /\ clientPc = "serve"
    /\ conn = "connected"
    /\ link = "up"
    /\ clientSendPc = "run"

\* ------------------------------------------------------------------------
\* Claims about a peer and the hub, end to end (SpecOrder)
\* ------------------------------------------------------------------------
\* C33: on every connection the peer transport opens, the identification
\* with its own name is written before any envelope of the outgoing queue:
\* an envelope is written only in a session, after the identification of
\* the current connection, and every connection that carries an envelope
\* has been identified under the peer's name.
C33_IdentificationFirst ==
    /\ [](\A c \in Conns : wire[c] # <<>> => ident[c] = ClientName)
    /\ [](\A c \in Conns : (c # 1 /\ peer[c] # "none") => ident[c] = ClientName)
    /\ [][\A c \in Conns : Len(wire'[c]) > Len(wire[c]) =>
             /\ clientPc \in {"serve", "join"}
             /\ ident[c] = ClientName
             /\ c = ClientConn
       ]_vars
    /\ [][Len(clientOut') < Len(clientOut) => clientPc \in {"serve", "join"}]_vars

\* C33 witness: the peer has reconnected (connection 3, identified under
\* its name) and an envelope has been written on the new connection.
C33_Witness ==
    /\ peer[3] = "up"
    /\ ident[3] = ClientName
    /\ wire[3] # <<>>

\* ------------------------------------------------------------------------
\* Claims about the end of the hub transport (SpecShutdown)
\* ------------------------------------------------------------------------
\* C34: once the stop signal is set and the accept loop has exited, the hub
\* transport has joined its dispatch loop and its receive loops and closed
\* the listening socket, and the router's run returns only after that.
C34_TransportClosedAfterAcceptExit ==
    /\ acceptPc = "exited" => server_socket = "closed"
    /\ routerPc = "done" => acceptPc = "exited" /\ server_socket = "closed"

\* ------------------------------------------------------------------------
\* Cuvette sensor (cuvetteSensor.py)
\* ------------------------------------------------------------------------
\* Polls made in one run.
MaxReadings == 4

SensorName == "CuvetteSensor"

\* What reading self.sensor.value gives: the level of the input pin, or an
\* exception of the GPIO library.
SensorReadings == {[ok |-> TRUE, value |-> 0], [ok |-> TRUE, value |-> 1],
                   [ok |-> FALSE, value |-> 0]}

ReadingSeqs == UNION {[1..n -> SensorReadings] : n \in 0..MaxReadings}

\* self.config.get('presence_threshold', 0): left out, or set to 1.
SensorThresholds == {0, 1}

\* Module.sendMessage(destination, type): an envelope with the unit's own
\* name as Sender is put on the outbound queue.
SensorSendMessage(q, d, t) == Append(q, Envelope(SensorName, d, t))

\* Module.log(level, text): a log entry for the logger, sent the same way.
SensorLog(q) == SensorSendMessage(q, "Logger", "LogMessage")

\* A mutant of the decision: the state is reported at every poll.
NotificationAlways(present, below) ==
    IF below THEN "CuvettePresent" ELSE "CuvetteAbsent"

\* The decision of checkPresence: the notification to send for the reading
\* (currentlyPresent) given self.isPresent, NoneValue for none.
Notification(present, below) ==
    IF below /\ ~present THEN "CuvettePresent"
    ELSE IF ~below /\ present THEN "CuvetteAbsent"
    ELSE NoneValue

\* CuvetteSensor.__init__ and onStart with a sensor, and the readings of
\* the run.
InitSensor ==
    /\ HubIdle
    /\ FramingIdle
    /\ ClientIdle
    /\ StartIdle
    /\ OrderIdle
    /\ ModuleIdle
    /\ LaunchIdle
    /\ presenceThreshold \in SensorThresholds
    /\ isPresent = FALSE
    /\ readings \in ReadingSeqs
    /\ rdIdx = 0
    /\ sensorStop = FALSE
    /\ sensorOut = <<>>

\* One pass of mainLoop: checkPresence reads the sensor, compares with the
\* threshold, and on a change of state stores the new state and sends the
\* notification to the camera; an exception is logged and sets the stop
\* event.
CheckPresence ==
    /\ ~sensorStop
    /\ rdIdx < Len(readings)
    /\ rdIdx' = rdIdx + 1
    /\ LET r == readings[rdIdx + 1]
           currentlyPresent == r.value < presenceThreshold
           n == Notification(isPresent, currentlyPresent)
       IN IF ~r.ok
          THEN /\ sensorOut' = SensorLog(sensorOut)
               /\ sensorStop' = TRUE
               /\ UNCHANGED isPresent
          ELSE /\ isPresent' = IF n = "CuvettePresent" THEN TRUE
                               ELSE IF n = "CuvetteAbsent" THEN FALSE
                               ELSE isPresent
               /\ sensorOut' = IF n = NoneValue THEN sensorOut
                               ELSE SensorSendMessage(sensorOut, "Camera", n)
               /\ UNCHANGED sensorStop
    /\ UNCHANGED <<presenceThreshold, readings>>

\* mainLoop: `while not self.stopEvent.is_set()` ends on a stop that comes
\* from outside (the Stop broadcast).
SensorStopped ==
    /\ ~sensorStop
    /\ sensorStop' = TRUE
    /\ UNCHANGED <<presenceThreshold, isPresent, readings, rdIdx, sensorOut>>

NextSensor ==
    \/ CheckPresence /\ UNCHANGED <<framingVars, hubVars, clientVars, startVars, orderVars, moduleVars, launchVars>>
    \/ SensorStopped /\ UNCHANGED <<framingVars, hubVars, clientVars, startVars, orderVars, moduleVars, launchVars>>

SpecSensor == InitSensor /\ [][NextSensor]_vars

\* The notifications sent so far, in order.
Notified == SelectSeq(sensorOut, LAMBDA m : m.type # "LogMessage")

C36_DispatchRunsUntilStop ==
    sendPc \in {"dead", "exited"} => stopEvent

\* ------------------------------------------------------------------------
\* Claims about what a peer's send loop does with an envelope (SpecOrder)
\* ------------------------------------------------------------------------
\* How many times m is in the sequence q.
Count(m, q) == Len(SelectSeq(q, LAMBDA x : x = m))

\* How many copies of m are in flight on the peer's connections.
RECURSIVE OnWireUpTo(_, _)
OnWireUpTo(m, c) == IF c = 0 THEN 0 ELSE Count(m, wire[c]) + OnWireUpTo(m, c - 1)
OnWire(m) == OnWireUpTo(m, MaxConn)

\* The send thread ends on a failed write.
WriteFails == clientSendPc = "run" /\ clientSendPc' = "ended" /\ ~clientStop

\* C37: delivery by a peer is at most once, with no retry: an envelope the
\* send loop dequeues is written to one connection at most; when the write
\* fails because the connection is lost the envelope is gone from the
\* queue, and it is never put back or written again after the peer has
\* reconnected.
C37_AtMostOnceNoRetry ==
    /\ [](\A k \in 1..Len(OrderEnvelopes) :
             /\ Count(OrderEnvelopes[k], clientOut) + OnWire(OrderEnvelopes[k]) <= 1
             /\ nInbound < k =>
                   Count(OrderEnvelopes[k], clientOut) + OnWire(OrderEnvelopes[k]) = 0)
    /\ [][\A k \in 1..Len(OrderEnvelopes) :
             LET m == OrderEnvelopes[k] IN
             /\ Count(m, clientOut') > Count(m, clientOut) =>
                   nInbound' = k /\ nInbound = k - 1
             /\ OnWire(m)' > OnWire(m) =>
                   /\ OnWire(m)' = OnWire(m) + 1
                   /\ clientOut # <<>> /\ Head(clientOut) = m
                   /\ Count(m, clientOut') = Count(m, clientOut) - 1
             /\ (WriteFails /\ clientOut # <<>> /\ Head(clientOut) = m) =>
                   /\ Count(m, clientOut') = 0
                   /\ OnWire(m)' = OnWire(m)
       ]_vars

\* C37 witness: the first envelope was dequeued and its write failed (it is
\* neither queued nor in flight and never reached the hub), the peer has
\* reconnected on connection 3 and the second envelope is in flight there.
C37_Witness ==
    /\ nInbound = 2
    /\ Count(FirstEnvelope, clientOut) + OnWire(FirstEnvelope) = 0
    /\ Count(FirstEnvelope, incomingQueue) = 0
    /\ Count(FirstEnvelope, routed) = 0
    /\ peer[3] = "up"
    /\ ident[3] = ClientName
    /\ wire[3] = <<SecondEnvelope>>

\* ------------------------------------------------------------------------
\* Application start (main.py, EventManager.__init__ and run)
\* ------------------------------------------------------------------------
\* main(): modules_to_start, in the order of the dict.
modules_to_start ==
    <<"logger", "lightSource", "cuvetteSensor", "camera", "analysis", "cli">>

\* The module names a configuration can enable.
ConfigNames == {modules_to_start[i] : i \in 1..Len(modules_to_start)}

\* eventManager.py: the keys of MODULE_MAP.
MODULE_MAP == {"lightSource", "cuvetteSensor", "camera", "analysis"}

\* The parameters of each module class's __init__ after self, and how many
\* of them have no default.
InitParams(name) ==
    IF name = "lightSource" THEN <<"config", "network_config", "system_config">>
    ELSE IF name = "camera" THEN <<"networkConfig", "systemConfig">>
    ELSE IF name = "analysis" THEN <<"reference_spectra_path", "tolerance_nm">>
    ELSE <<"moduleConfig", "networkConfig", "systemConfig">>

\* main(): module_class(module_config, network_config, system_config)
\* returns an instance when the class takes three positional arguments,
\* and raises TypeError otherwise.
MainConstructs(name) == Len(InitParams(name)) >= 3

\* _instantiateModules: ModuleClass(config=..., networkConfig=...,
\* systemConfig=...) returns an instance when the class has parameters of
\* these names, and raises TypeError otherwise.
EMConstructs(name) ==
    {"config", "networkConfig", "systemConfig"} \subseteq
        {InitParams(name)[i] : i \in 1..Len(InitParams(name))}

\* The names of a set, in the order of modules_to_start.
InOrder(S) == SelectSeq(modules_to_start, LAMBDA n : n \in S)

\* Before main(): the configuration enables any of the modules.
InitLaunch ==
    /\ HubIdle
    /\ FramingIdle
    /\ ClientIdle
    /\ StartIdle
    /\ OrderIdle
    /\ ModuleIdle
    /\ SensorIdle
    /\ enabled \in SUBSET ConfigNames
    /\ mainPc = "init"
    /\ startIdx = 1
    /\ emPc = "none"
    /\ modules = <<>>
    /\ started = <<>>

\* main(): EventManager(configPath=config_path) and emProcess.start(). The
\* constructor instantiates every enabled module of MODULE_MAP; a TypeError
\* of one of them leaves main() before anything has been started.
MainBuildEventManager ==
    /\ mainPc = "init"
    /\ IF \A n \in enabled \cap MODULE_MAP : EMConstructs(n)
       THEN /\ modules' = InOrder(enabled \cap MODULE_MAP)
            /\ emPc' = "built"
            /\ mainPc' = "starting"
       ELSE /\ mainPc' = "crashed"
            /\ UNCHANGED <<modules, emPc>>
    /\ UNCHANGED <<enabled, startIdx, started>>

\* EventManager.run in its process: one Process per instance of
\* self.modules is created and started.
EventManagerStart ==
    /\ emPc = "built"
    /\ emPc' = "running"
    /\ started' = started \o [i \in 1..Len(modules) |-> <<RouterName, modules[i]>>]
    /\ UNCHANGED <<enabled, mainPc, startIdx, modules>>

\* main(): one pass of the loop over modules_to_start: an enabled module
\* is instantiated and its process started.
MainStartNext ==
    /\ mainPc = "starting"
    /\ startIdx <= Len(modules_to_start)
    /\ LET n == modules_to_start[startIdx] IN
       IF n \notin enabled
       THEN UNCHANGED <<mainPc, started>>
       ELSE IF MainConstructs(n)
       THEN /\ started' = Append(started, <<"main", n>>)
            /\ UNCHANGED mainPc
       ELSE /\ mainPc' = "crashed"
            /\ UNCHANGED started
    /\ startIdx' = startIdx + 1
    /\ UNCHANGED <<enabled, emPc, modules>>

\* main(): the loop is over; the signal handlers are set and main() waits
\* in emProcess.join().
MainWait ==
    /\ mainPc = "starting"
    /\ startIdx > Len(modules_to_start)
    /\ mainPc' = "waiting"
    /\ UNCHANGED <<enabled, startIdx, emPc, modules, started>>

NextLaunch ==
    \/ MainBuildEventManager /\ UNCHANGED <<framingVars, hubVars, clientVars, startVars, orderVars, moduleVars, sensorVars>>
    \/ EventManagerStart /\ UNCHANGED <<framingVars, hubVars, clientVars, startVars, orderVars, moduleVars, sensorVars>>
    \/ MainStartNext /\ UNCHANGED <<framingVars, hubVars, clientVars, startVars, orderVars, moduleVars, sensorVars>>
    \/ MainWait /\ UNCHANGED <<framingVars, hubVars, clientVars, startVars, orderVars, moduleVars, sensorVars>>

SpecLaunch == InitLaunch /\ [][NextLaunch]_vars

\* The processes started for module n.
ProcessesOf(n) == Len(SelectSeq(started, LAMBDA p : p[2] = n))

\* The start of the application is over: main() waits or has raised, and
\* the EventManager, if it was built, has started its processes.
LaunchOver == mainPc \in {"waiting", "crashed"} /\ emPc # "built"

\* C38: each enabled module is started as exactly one OS process per run,
\* counting those main() starts and those EventManager.run starts: never
\* more than one, and one when the start of the application is over.
C38_OneProcessPerEnabledModule ==
    /\ \A n \in ConfigNames : ProcessesOf(n) <= 1
    /\ LaunchOver => \A n \in enabled : ProcessesOf(n) = 1

\* ------------------------------------------------------------------------
\* Module.run under a fair scheduler
\* ------------------------------------------------------------------------
\* A step of the thread that runs run().
RunThreadStep ==
    \/ ModuleRun
    \/ ModuleWaitEnd
    \/ ModuleCheck
    \/ ModuleOnStartReturn
    \/ ModuleMainLoopReturn
    \/ ModuleOnStopReturn
    \/ ModuleJoin

\* A step of the communicator thread.
CommThreadStep ==
    \/ \E o \in WsConnectOutcomes : CommConnect(o)
    \/ CommRegister
    \/ CommRecv
    \/ CommHandleReturn
    \/ CommClose

\* Both threads are scheduled again and again: a thread that can take a
\* step eventually takes one. Nothing is assumed of the server or of the
\* hooks' calls to send_message.
SpecModuleFair ==
    /\ SpecModule
    /\ WF_vars(RunThreadStep /\ UNCHANGED <<framingVars, hubVars, clientVars, startVars, orderVars, appVars>>)
    /\ WF_vars(CommThreadStep /\ UNCHANGED <<framingVars, hubVars, clientVars, startVars, orderVars, appVars>>)

\* C39: whenever the communicator thread has ended, through a Stop message,
\* a refused or closed connection or any other error, run() eventually
\* returns.
C39_RunReturnsWhenThreadEnds ==
    (commPc \in {"exited", "crashed"}) ~> (runPc = "done")

====
